---------------------------- MODULE Spec2Model ----------------------------
(***************************************************************************)
(* Model of coolpack's detection pipeline: the Detector that walks the     *)
(* registered providers, the Node provider's resolvers (package manager,   *)
(* Node version, framework and output type) and the syntax-tree property   *)
(* resolver used on framework configuration files.                         *)
(*                                                                         *)
(* Go strings on which the code does string work (versions, the            *)
(* packageManager field, environment values, file contents, node texts)    *)
(* are sequences of one-character strings.  Names that the code only       *)
(* compares or looks up (file names, dependency names, enum values) are    *)
(* TLA+ strings.                                                           *)
(***************************************************************************)
EXTENDS Integers, Sequences, FiniteSets, TLC

VARIABLES
    osEnv,        \* the process environment read by loadRelevantEnvVars
    ctx,          \* app.Context: the project directory and ctx.Env
    pkg,          \* the parsed PackageJSON handed to the resolvers
    pmInfo,       \* result of DetectPackageManager
    nodeVersion,  \* result of DetectNodeVersion
    fwInfo,       \* result of DetectFramework
    root,         \* syntax tree handed to the property resolver
    propertyName, \* FindPropertyValue's propertyName
    path,         \* FindNestedPropertyValue's path
    propValue,    \* result of FindPropertyValue / FindNestedPropertyValue
    providers,    \* Detector.providers, in registration order
    idx,          \* position of Detector.Detect's range loop
    consulted,    \* the providers whose Detect has been called, in order
    planner,      \* the provider whose Plan has been called (0: none)
    ret,          \* what Detector.Detect returned: [plan, err]
    pc

vars == <<osEnv, ctx, pkg, pmInfo, nodeVersion, fwInfo, root, propertyName,
          path, propValue, providers, idx, consulted, planner, ret, pc>>

-----------------------------------------------------------------------------
(* Go's strings package, on sequences of characters *)

Digits == {"0", "1", "2", "3", "4", "5", "6", "7", "8", "9"}

UpperLetters == <<"A","B","C","D","E","F","G","H","I","J","K","L","M",
                  "N","O","P","Q","R","S","T","U","V","W","X","Y","Z">>

LowerLetters == <<"a","b","c","d","e","f","g","h","i","j","k","l","m",
                  "n","o","p","q","r","s","t","u","v","w","x","y","z">>

IsSpace(c) == c \in {" ", "\t", "\n", "\r"}

RECURSIVE TrimLeftSpace(_)
TrimLeftSpace(s) ==
    IF s # <<>> /\ IsSpace(Head(s)) THEN TrimLeftSpace(Tail(s)) ELSE s

RECURSIVE TrimRightSpace(_)
TrimRightSpace(s) ==
    IF s # <<>> /\ IsSpace(s[Len(s)])
    THEN TrimRightSpace(SubSeq(s, 1, Len(s) - 1))
    ELSE s

TrimSpace(s) == TrimRightSpace(TrimLeftSpace(s))

HasPrefix(s, p) == Len(s) >= Len(p) /\ SubSeq(s, 1, Len(p)) = p

TrimPrefix(s, p) == IF HasPrefix(s, p) THEN SubSeq(s, Len(p) + 1, Len(s)) ELSE s

LowerChar(c) ==
    IF \E i \in 1..26 : UpperLetters[i] = c
    THEN LowerLetters[CHOOSE i \in 1..26 : UpperLetters[i] = c]
    ELSE c

ToLower(s) == [i \in 1..Len(s) |-> LowerChar(s[i])]

\* strings.Index for a one-character separator; 0 when absent
IndexOf(s, c) ==
    IF \E i \in 1..Len(s) : s[i] = c
    THEN CHOOSE i \in 1..Len(s) : s[i] = c /\ \A j \in 1..(i - 1) : s[j] # c
    ELSE 0

\* strings.Split(s, sep): the pieces between the separators
RECURSIVE Split(_, _)
Split(s, sep) ==
    LET i == IndexOf(s, sep)
    IN  IF i = 0 THEN <<s>>
        ELSE <<SubSeq(s, 1, i - 1)>> \o Split(SubSeq(s, i + 1, Len(s)), sep)

\* strings.SplitN(s, sep, 2)
SplitN2(s, sep) ==
    LET i == IndexOf(s, sep)
    IN  IF i = 0 THEN <<s>>
        ELSE <<SubSeq(s, 1, i - 1), SubSeq(s, i + 1, Len(s))>>

\* the longest prefix of s made of characters of the set cs
RECURSIVE TakeIn(_, _)
TakeIn(s, cs) ==
    IF s # <<>> /\ Head(s) \in cs THEN <<Head(s)>> \o TakeIn(Tail(s), cs) ELSE <<>>

\* the longest prefix of s made of characters outside the set cs
RECURSIVE TakeNotIn(_, _)
TakeNotIn(s, cs) ==
    IF s # <<>> /\ Head(s) \notin cs
    THEN <<Head(s)>> \o TakeNotIn(Tail(s), cs)
    ELSE <<>>

SpaceChars == {" ", "\t", "\n", "\r"}

\* strings.Fields(s): the maximal runs of non-space characters
RECURSIVE Fields(_)
Fields(s) ==
    LET t == TrimLeftSpace(s)
        w == TakeNotIn(t, SpaceChars)
    IN  IF t = <<>> THEN <<>>
        ELSE <<w>> \o Fields(SubSeq(t, Len(w) + 1, Len(t)))

-----------------------------------------------------------------------------
(* The character strings the model's inputs and the code's literals use *)

pnpmS == <<"p", "n", "p", "m">>
yarnS == <<"y", "a", "r", "n">>
bunS == <<"b", "u", "n">>
npmS == <<"n", "p", "m">>
denoS == <<"d", "e", "n", "o">>
ltsS == <<"l", "t", "s">>
nodeS == <<"n", "o", "d", "e">>
nodejsS == <<"n", "o", "d", "e", "j", "s">>
outputS == <<"o", "u", "t", "p", "u", "t">>
ssrS == <<"s", "s", "r">>
serverS == <<"s", "e", "r", "v", "e", "r">>
presetS == <<"p", "r", "e", "s", "e", "t">>
exportS == <<"e", "x", "p", "o", "r", "t">>
staticS == <<"s", "t", "a", "t", "i", "c">>
hybridS == <<"h", "y", "b", "r", "i", "d">>
falseS == <<"f", "a", "l", "s", "e">>
trueS == <<"t", "r", "u", "e">>

-----------------------------------------------------------------------------
(* app.Context *)

\* ctx.files: the names os.Stat finds; ctx.unreadable: those of them that
\* os.ReadFile fails on; ctx.text: the bytes of the readable version files;
\* ctx.parse: what the tree-sitter parser makes of the readable
\* configuration files; ctx.manifest: what json.Unmarshal makes of
\* package.json.
HasFile(c, name) == name \in c.files

ReadFileOk(c, name) == name \in c.files /\ name \notin c.unreadable

-----------------------------------------------------------------------------
(* package.json *)

NoEngines == [Node |-> <<>>, NPM |-> <<>>, Yarn |-> <<>>, PNPM |-> <<>>, Bun |-> <<>>]

EmptyPackageJSON ==
    [Name |-> "", Version |-> "", Main |-> "", Type |-> "",
     Scripts |-> {}, Dependencies |-> <<>>, DevDependencies |-> <<>>,
     Engines |-> NoEngines, PackageManager |-> <<>>,
     Workspaces |-> <<>>, CacheDirectories |-> <<>>]

IsMonorepo(p) == Len(p.Workspaces) > 0

HasDependency(p, name) ==
    name \in DOMAIN p.Dependencies \/ name \in DOMAIN p.DevDependencies

GetDependencyVersion(p, name) ==
    IF name \in DOMAIN p.Dependencies THEN p.Dependencies[name]
    ELSE IF name \in DOMAIN p.DevDependencies THEN p.DevDependencies[name]
    ELSE <<>>

HasScript(p, name) == name \in p.Scripts

\* GetPackageManagerInfo that leaves the hash suffix on the version
GetPackageManagerInfoKeepsHash(p) ==
    IF p.PackageManager = <<>> THEN [name |-> <<>>, version |-> <<>>]
    ELSE LET parts == SplitN2(p.PackageManager, "@")
         IN  [name |-> parts[1],
              version |-> IF Len(parts) > 1 THEN parts[2] ELSE <<>>]

GetPackageManagerInfo(p) ==
    IF p.PackageManager = <<>> THEN [name |-> <<>>, version |-> <<>>]
    ELSE LET parts == SplitN2(p.PackageManager, "@")
         IN  [name |-> parts[1],
              version |-> IF Len(parts) > 1 THEN Split(parts[2], "+")[1] ELSE <<>>]

-----------------------------------------------------------------------------
(* Package manager resolver *)

PackageManagerNPM == "npm"
PackageManagerYarn1 == "yarn"
PackageManagerYarnBerry == "yarnberry"
PackageManagerPNPM == "pnpm"
PackageManagerBun == "bun"

\* isYarnBerry that takes every version that does not begin with 1 for Berry
isYarnBerryNotOne(version) ==
    IF version = <<>> THEN FALSE ELSE Head(version) # "1"

isYarnBerry(version) ==
    IF version = <<>> THEN FALSE
    ELSE Head(version) \in {"2", "3", "4", "5", "6", "7", "8", "9"}

\* the cascade with the lock files consulted before the packageManager field
DetectPackageManagerLockFirst(c, p) ==
    LET pm == GetPackageManagerInfo(p)
        info(n, v) == [Name |-> n, Version |-> v]
    IN  IF HasFile(c, "pnpm-lock.yaml") THEN info(PackageManagerPNPM, <<>>)
        ELSE IF HasFile(c, "bun.lockb") \/ HasFile(c, "bun.lock")
        THEN info(PackageManagerBun, <<>>)
        ELSE IF HasFile(c, ".yarnrc.yml") \/ HasFile(c, ".yarnrc.yaml")
        THEN info(PackageManagerYarnBerry, <<>>)
        ELSE IF HasFile(c, "yarn.lock") THEN info(PackageManagerYarn1, <<>>)
        ELSE IF HasFile(c, "package-lock.json") THEN info(PackageManagerNPM, <<>>)
        ELSE IF pm.name = pnpmS THEN info(PackageManagerPNPM, pm.version)
        ELSE IF pm.name = yarnS
        THEN info(IF isYarnBerry(pm.version) THEN PackageManagerYarnBerry
                  ELSE PackageManagerYarn1, pm.version)
        ELSE IF pm.name = bunS THEN info(PackageManagerBun, pm.version)
        ELSE IF pm.name = npmS THEN info(PackageManagerNPM, pm.version)
        ELSE IF p.Engines.PNPM # <<>> THEN info(PackageManagerPNPM, <<>>)
        ELSE IF p.Engines.Bun # <<>> THEN info(PackageManagerBun, <<>>)
        ELSE IF p.Engines.Yarn # <<>> THEN info(PackageManagerYarn1, <<>>)
        ELSE info(PackageManagerNPM, <<>>)

\* the cascade with a default case for the packageManager field
DetectPackageManagerUnknownAsNpm(c, p) ==
    LET pm == GetPackageManagerInfo(p)
        info(n, v) == [Name |-> n, Version |-> v]
    IN  \* 1. packageManager field (pmName # "" is implied by each case)
        IF pm.name = pnpmS THEN info(PackageManagerPNPM, pm.version)
        ELSE IF pm.name = yarnS
        THEN info(IF isYarnBerry(pm.version) THEN PackageManagerYarnBerry
                  ELSE PackageManagerYarn1, pm.version)
        ELSE IF pm.name = bunS THEN info(PackageManagerBun, pm.version)
        ELSE IF pm.name = npmS THEN info(PackageManagerNPM, pm.version)
        ELSE IF pm.name # <<>> THEN info(PackageManagerNPM, pm.version)
        \* 2. lock files
        ELSE IF HasFile(c, "pnpm-lock.yaml") THEN info(PackageManagerPNPM, <<>>)
        ELSE IF HasFile(c, "bun.lockb") \/ HasFile(c, "bun.lock")
        THEN info(PackageManagerBun, <<>>)
        ELSE IF HasFile(c, ".yarnrc.yml") \/ HasFile(c, ".yarnrc.yaml")
        THEN info(PackageManagerYarnBerry, <<>>)
        ELSE IF HasFile(c, "yarn.lock") THEN info(PackageManagerYarn1, <<>>)
        ELSE IF HasFile(c, "package-lock.json") THEN info(PackageManagerNPM, <<>>)
        \* 3. engines
        ELSE IF p.Engines.PNPM # <<>> THEN info(PackageManagerPNPM, <<>>)
        ELSE IF p.Engines.Bun # <<>> THEN info(PackageManagerBun, <<>>)
        ELSE IF p.Engines.Yarn # <<>> THEN info(PackageManagerYarn1, <<>>)
        \* 4. default
        ELSE info(PackageManagerNPM, <<>>)

DetectPackageManager(c, p) ==
    LET pm == GetPackageManagerInfo(p)
        info(n, v) == [Name |-> n, Version |-> v]
    IN  \* 1. packageManager field (pmName # "" is implied by each case)
        IF pm.name = pnpmS THEN info(PackageManagerPNPM, pm.version)
        ELSE IF pm.name = yarnS
        THEN info(IF isYarnBerry(pm.version) THEN PackageManagerYarnBerry
                  ELSE PackageManagerYarn1, pm.version)
        ELSE IF pm.name = bunS THEN info(PackageManagerBun, pm.version)
        ELSE IF pm.name = npmS THEN info(PackageManagerNPM, pm.version)
        \* 2. lock files
        ELSE IF HasFile(c, "pnpm-lock.yaml") THEN info(PackageManagerPNPM, <<>>)
        ELSE IF HasFile(c, "bun.lockb") \/ HasFile(c, "bun.lock")
        THEN info(PackageManagerBun, <<>>)
        ELSE IF HasFile(c, ".yarnrc.yml") \/ HasFile(c, ".yarnrc.yaml")
        THEN info(PackageManagerYarnBerry, <<>>)
        ELSE IF HasFile(c, "yarn.lock") THEN info(PackageManagerYarn1, <<>>)
        ELSE IF HasFile(c, "package-lock.json") THEN info(PackageManagerNPM, <<>>)
        \* 3. engines
        ELSE IF p.Engines.PNPM # <<>> THEN info(PackageManagerPNPM, <<>>)
        ELSE IF p.Engines.Bun # <<>> THEN info(PackageManagerBun, <<>>)
        ELSE IF p.Engines.Yarn # <<>> THEN info(PackageManagerYarn1, <<>>)
        \* 4. default
        ELSE info(PackageManagerNPM, <<>>)

GetInstallCommand(pm) ==
    CASE pm.Name = PackageManagerPNPM -> <<"pnpm", "install", "--frozen-lockfile">>
      [] pm.Name = PackageManagerYarnBerry -> <<"yarn", "install", "--immutable">>
      [] pm.Name = PackageManagerYarn1 -> <<"yarn", "install", "--frozen-lockfile">>
      [] pm.Name = PackageManagerBun -> <<"bun", "install", "--frozen-lockfile">>
      [] OTHER -> <<"npm", "ci">>

GetRunCommand(pm) ==
    CASE pm.Name = PackageManagerPNPM -> <<"pnpm">>
      [] pm.Name \in {PackageManagerYarnBerry, PackageManagerYarn1} -> <<"yarn">>
      [] pm.Name = PackageManagerBun -> <<"bun", "run">>
      [] OTHER -> <<"npm", "run">>

GetLockFile(pm) ==
    CASE pm.Name = PackageManagerPNPM -> "pnpm-lock.yaml"
      [] pm.Name \in {PackageManagerYarnBerry, PackageManagerYarn1} -> "yarn.lock"
      [] pm.Name = PackageManagerBun -> "bun.lockb"
      [] OTHER -> "package-lock.json"

-----------------------------------------------------------------------------
(* Runtime version resolver *)

DefaultNodeVersion == <<"2", "4">>

normalizeVersion(v) == TrimPrefix(TrimSpace(v), <<"v">>)

parseVersionFile(content) ==
    LET v == TrimPrefix(TrimSpace(content), <<"v">>)
    IN  IF HasPrefix(ToLower(v), ltsS) THEN DefaultNodeVersion
        ELSE IF v # <<>> THEN v
        ELSE <<>>

\* parseEngineVersion that returns the whole first number group
parseEngineVersionGroup(constraint) ==
    LET s == TrimSpace(constraint)
        hasDigit == \E i \in 1..Len(s) : s[i] \in Digits
        first == CHOOSE i \in 1..Len(s) :
                     s[i] \in Digits /\ \A j \in 1..(i - 1) : s[j] \notin Digits
    IN  IF hasDigit THEN TakeIn(SubSeq(s, first, Len(s)), Digits \cup {"."}) ELSE <<>>

\* regexp (\d+)(?:\.(\d+))?(?:\.(\d+))? : the leftmost match starts at the
\* first digit and group 1 is the longest run of digits from there
parseEngineVersion(constraint) ==
    LET s == TrimSpace(constraint)
        hasDigit == \E i \in 1..Len(s) : s[i] \in Digits
        first == CHOOSE i \in 1..Len(s) :
                     s[i] \in Digits /\ \A j \in 1..(i - 1) : s[j] \notin Digits
    IN  IF hasDigit THEN TakeIn(SubSeq(s, first, Len(s)), Digits) ELSE <<>>

\* the loop of parseToolVersions over lines[i..]
RECURSIVE toolVersionsFrom(_, _, _)
toolVersionsFrom(lines, i, tool) ==
    IF i > Len(lines) THEN <<>>
    ELSE LET parts == Fields(TrimSpace(lines[i]))
         IN  IF Len(parts) >= 2 /\ parts[1] = tool
             THEN normalizeVersion(parts[2])
             ELSE toolVersionsFrom(lines, i + 1, tool)

parseToolVersions(content, tool) == toolVersionsFrom(Split(content, "\n"), 1, tool)

\* One attempt of the regexp (?:node|nodejs)\s*=\s*"([^"]+)" at position i
\* with the alternative word: the captured group, or <<>> when it fails
\* (a successful match captures at least one character).
miseMatchAt(s, i, word) ==
    LET afterWord == SubSeq(s, i + Len(word), Len(s))
        a == TrimLeftSpace(afterWord)
        b == TrimLeftSpace(Tail(a))
        body == TakeNotIn(Tail(b), {"\""})
    IN  IF i + Len(word) - 1 > Len(s) THEN <<>>
        ELSE IF SubSeq(s, i, i + Len(word) - 1) # word THEN <<>>
        ELSE IF a = <<>> \/ Head(a) # "=" THEN <<>>
        ELSE IF b = <<>> \/ Head(b) # "\"" THEN <<>>
        ELSE IF body = <<>> \/ Len(body) + 1 > Len(Tail(b)) THEN <<>>
        ELSE body

\* the leftmost match, trying node before nodejs at each position
RECURSIVE miseFindFrom(_, _)
miseFindFrom(s, i) ==
    IF i > Len(s) THEN <<>>
    ELSE IF miseMatchAt(s, i, nodeS) # <<>> THEN miseMatchAt(s, i, nodeS)
    ELSE IF miseMatchAt(s, i, nodejsS) # <<>> THEN miseMatchAt(s, i, nodejsS)
    ELSE miseFindFrom(s, i + 1)

parseMiseToml(content) ==
    LET m == miseFindFrom(content, 1)
    IN  IF m # <<>> THEN normalizeVersion(m) ELSE <<>>

DetectNodeVersion(c, p) ==
    LET nvmrc == IF HasFile(c, ".nvmrc") /\ ReadFileOk(c, ".nvmrc")
                 THEN parseVersionFile(c.text[".nvmrc"]) ELSE <<>>
        nodev == IF HasFile(c, ".node-version") /\ ReadFileOk(c, ".node-version")
                 THEN parseVersionFile(c.text[".node-version"]) ELSE <<>>
        tools == IF HasFile(c, ".tool-versions") /\ ReadFileOk(c, ".tool-versions")
                 THEN parseToolVersions(c.text[".tool-versions"], nodejsS) ELSE <<>>
        mise == IF HasFile(c, "mise.toml") /\ ReadFileOk(c, "mise.toml")
                THEN parseMiseToml(c.text["mise.toml"]) ELSE <<>>
    IN  IF c.Env["COOLPACK_NODE_VERSION"] # <<>>
        THEN normalizeVersion(c.Env["COOLPACK_NODE_VERSION"])
        ELSE IF c.Env["NODE_VERSION"] # <<>>
        THEN normalizeVersion(c.Env["NODE_VERSION"])
        ELSE IF p.Engines.Node # <<>> /\ parseEngineVersion(p.Engines.Node) # <<>>
        THEN parseEngineVersion(p.Engines.Node)
        ELSE IF nvmrc # <<>> THEN nvmrc
        ELSE IF nodev # <<>> THEN nodev
        ELSE IF tools # <<>> THEN tools
        ELSE IF mise # <<>> THEN mise
        ELSE DefaultNodeVersion

-----------------------------------------------------------------------------
(* Syntax tree property resolver *)

\* A sitter.Node: its type, the source text between its StartByte and its
\* EndByte, its children, and which child the grammar's "key" and "value"
\* fields name (0: none).  NilNode is the nil *sitter.Node.
NilNode == [type |-> "nil", text |-> <<>>, children |-> <<>>, key |-> 0, value |-> 0]

Token(t, s) == [type |-> t, text |-> s, children |-> <<>>, key |-> 0, value |-> 0]

ChildByFieldKey(node) == IF node.key = 0 THEN NilNode ELSE node.children[node.key]

ChildByFieldValue(node) ==
    IF node.value = 0 THEN NilNode ELSE node.children[node.value]

getNodeText(node) == IF node = NilNode THEN <<>> ELSE node.text

trimQuotes(s) ==
    IF Len(s) >= 2 /\ ((s[1] = "\"" /\ s[Len(s)] = "\"")
                       \/ (s[1] = "'" /\ s[Len(s)] = "'"))
    THEN SubSeq(s, 2, Len(s) - 1)
    ELSE s

IsPairNode(node) == node.type \in {"pair", "property_assignment"}

\* findPropertyObjectNode(node, source, propertyName); childrenObjectFrom is
\* its loop over the children i, i+1, ...
RECURSIVE findPropertyObjectNode(_, _)
RECURSIVE childrenObjectFrom(_, _, _)
findPropertyObjectNode(node, name) ==
    LET keyNode == ChildByFieldKey(node)
        valueNode == ChildByFieldValue(node)
    IN  IF node = NilNode THEN NilNode
        ELSE IF IsPairNode(node) /\ keyNode # NilNode /\ valueNode # NilNode
                /\ trimQuotes(getNodeText(keyNode)) = name
        THEN valueNode
        ELSE childrenObjectFrom(node, 1, name)

childrenObjectFrom(node, i, name) ==
    IF i > Len(node.children) THEN NilNode
    ELSE LET result == findPropertyObjectNode(node.children[i], name)
         IN  IF result # NilNode THEN result
             ELSE childrenObjectFrom(node, i + 1, name)

\* findPropertyInNode(node, source, propertyName); sibling is
\* node.NextSibling(), which the caller knows; childrenValueFrom is the loop
\* over the children i, i+1, ...
RECURSIVE findPropertyInNode(_, _, _)
RECURSIVE childrenValueFrom(_, _, _)
findPropertyInNode(node, sibling, name) ==
    LET keyNode == ChildByFieldKey(node)
        valueNode == ChildByFieldValue(node)
    IN  IF node = NilNode THEN <<>>
        ELSE IF IsPairNode(node) /\ keyNode # NilNode /\ valueNode # NilNode
                /\ trimQuotes(getNodeText(keyNode)) = name
        THEN trimQuotes(getNodeText(valueNode))
        ELSE IF node.type \in {"property_identifier", "identifier"}
                /\ getNodeText(node) = name /\ sibling # NilNode
        THEN trimQuotes(getNodeText(sibling))
        ELSE childrenValueFrom(node, 1, name)

childrenValueFrom(node, i, name) ==
    IF i > Len(node.children) THEN <<>>
    ELSE LET next == IF i < Len(node.children) THEN node.children[i + 1]
                     ELSE NilNode
             result == findPropertyInNode(node.children[i], next, name)
         IN  IF result # <<>> THEN result
             ELSE childrenValueFrom(node, i + 1, name)

\* the root of a tree has no sibling
FindPropertyValue(node, name) ==
    IF node = NilNode THEN <<>> ELSE findPropertyInNode(node, NilNode, name)

\* FindNestedPropertyValue that searches the whole tree again for every
\* segment of the path instead of the subtree of the segment before
RECURSIVE FindNestedPropertyValueGlobal(_, _)
FindNestedPropertyValueGlobal(node, p) ==
    IF node = NilNode \/ p = <<>> THEN <<>>
    ELSE LET objectNode == findPropertyObjectNode(node, Head(p))
         IN  IF objectNode = NilNode THEN <<>>
             ELSE IF Len(p) = 1 THEN trimQuotes(getNodeText(objectNode))
             ELSE FindNestedPropertyValueGlobal(node, Tail(p))

RECURSIVE FindNestedPropertyValue(_, _)
FindNestedPropertyValue(node, p) ==
    IF node = NilNode \/ p = <<>> THEN <<>>
    ELSE LET objectNode == findPropertyObjectNode(node, Head(p))
         IN  IF objectNode = NilNode THEN <<>>
             ELSE IF Len(p) = 1 THEN trimQuotes(getNodeText(objectNode))
             ELSE FindNestedPropertyValue(objectNode, Tail(p))

\* The trees tree-sitter's javascript and typescript grammars build for the
\* forms the configuration files of the model are written in.
Quoted(q, s) == <<q>> \o s \o <<q>>

StringNode(q, s) == Token("string", Quoted(q, s))

PropertyIdentifier(s) == Token("property_identifier", s)

Identifier(s) == Token("identifier", s)

\* key: value
PairNode(k, v) ==
    [type |-> "pair", text |-> k.text \o <<":">> \o v.text,
     children |-> <<k, Token(":", <<":">>), v>>, key |-> 1, value |-> 3]

RECURSIVE CommaSeparated(_)
CommaSeparated(nodes) ==
    IF nodes = <<>> THEN <<>>
    ELSE IF Len(nodes) = 1 THEN nodes
    ELSE <<Head(nodes), Token(",", <<",">>)>> \o CommaSeparated(Tail(nodes))

RECURSIVE ConcatText(_)
ConcatText(nodes) ==
    IF nodes = <<>> THEN <<>> ELSE Head(nodes).text \o ConcatText(Tail(nodes))

Composite(t, kids) ==
    [type |-> t, text |-> ConcatText(kids), children |-> kids, key |-> 0, value |-> 0]

\* { pair, pair, ... }
ObjectNode(pairs) ==
    Composite("object",
              <<Token("{", <<"{">>)>> \o CommaSeparated(pairs) \o <<Token("}", <<"}">>)>>)

\* export default <value>
ExportDefault(v) ==
    Composite("export_statement",
              <<Token("export", exportS),
                Token("default", <<"d", "e", "f", "a", "u", "l", "t">>), v>>)

\* const <name> = <value>
ConstDeclaration(name, v) ==
    Composite("lexical_declaration",
              <<Token("const", <<"c", "o", "n", "s", "t">>),
                Composite("variable_declarator",
                          <<Identifier(name), Token("=", <<"=">>), v>>)>>)

Program(statements) == Composite("program", statements)

-----------------------------------------------------------------------------
(* Framework classifier *)

FrameworkNone == ""
FrameworkNextJS == "nextjs"
FrameworkRemix == "remix"
FrameworkNuxt == "nuxt"
FrameworkAstro == "astro"
FrameworkVite == "vite"
FrameworkCRA == "create-react-app"
FrameworkAngular == "angular"
FrameworkSvelteKit == "sveltekit"
FrameworkSolidStart == "solid-start"
FrameworkExpress == "express"
FrameworkFastify == "fastify"
FrameworkNestJS == "nestjs"
FrameworkAdonisJS == "adonisjs"
FrameworkTanStack == "tanstack-start"
FrameworkGatsby == "gatsby"
FrameworkEleventy == "eleventy"

OutputTypeNone == ""
OutputTypeStatic == "static"
OutputTypeServer == "server"

ConstraintChars == {"^", "~", ">", "<", "="}

cleanVersion(v) ==
    IF v # <<>> /\ Head(v) \in ConstraintChars
    THEN SubSeq(v, Len(TakeIn(v, ConstraintChars \cup {" "})) + 1, Len(v))
    ELSE v

\* One candidate configuration file of an is...Mode function: the value
\* FindPropertyValue gives for the property, or <<>> when the file is
\* missing, cannot be read or cannot be parsed.
configProperty(c, file, name) ==
    IF HasFile(c, file) /\ ReadFileOk(c, file) /\ ~c.parse[file].err
    THEN FindPropertyValue(c.parse[file].root, name)
    ELSE <<>>

\* the same for FindNestedPropertyValue
configNestedProperty(c, file, p) ==
    IF HasFile(c, file) /\ ReadFileOk(c, file) /\ ~c.parse[file].err
    THEN FindNestedPropertyValue(c.parse[file].root, p)
    ELSE <<>>

isNextJSStaticExport(c) ==
    \/ configProperty(c, "next.config.ts", outputS) = exportS
    \/ configProperty(c, "next.config.mjs", outputS) = exportS
    \/ configProperty(c, "next.config.js", outputS) = exportS

isAstroSSRMode(c) ==
    \E f \in {"astro.config.ts", "astro.config.mjs", "astro.config.js"} :
        configProperty(c, f, outputS) \in {serverS, hybridS}

\* isNuxtSPAMode that stops at the first configuration file that exists
isNuxtSPAModeFirstFile(c) ==
    IF HasFile(c, "nuxt.config.ts")
    THEN configProperty(c, "nuxt.config.ts", ssrS) = falseS
    ELSE IF HasFile(c, "nuxt.config.js")
    THEN configProperty(c, "nuxt.config.js", ssrS) = falseS
    ELSE configProperty(c, "nuxt.config.mjs", ssrS) = falseS

isNuxtSPAMode(c) ==
    \E f \in {"nuxt.config.ts", "nuxt.config.js", "nuxt.config.mjs"} :
        configProperty(c, f, ssrS) = falseS

isReactRouterSPAMode(c) ==
    \/ configProperty(c, "react-router.config.ts", ssrS) = falseS
    \/ configProperty(c, "react-router.config.js", ssrS) = falseS

isSolidStartSPAMode(c) ==
    \/ configProperty(c, "app.config.ts", ssrS) = falseS
    \/ configProperty(c, "app.config.js", ssrS) = falseS

isTanStackStartStaticMode(c) ==
    \/ configNestedProperty(c, "app.config.ts", <<serverS, presetS>>) = staticS
    \/ configNestedProperty(c, "app.config.js", <<serverS, presetS>>) = staticS

FrameworkInfo(n, v, o) == [Name |-> n, Version |-> v, OutputType |-> o]

\* the tail of the decision list, from the backend frameworks on
DetectBackendOrBundler(c, p) ==
    LET ver(d) == cleanVersion(GetDependencyVersion(p, d))
    IN  IF HasDependency(p, "@adonisjs/core")
        THEN FrameworkInfo(FrameworkAdonisJS, ver("@adonisjs/core"), OutputTypeServer)
        ELSE IF HasDependency(p, "@nestjs/core")
        THEN FrameworkInfo(FrameworkNestJS, ver("@nestjs/core"), OutputTypeServer)
        ELSE IF HasDependency(p, "fastify")
        THEN FrameworkInfo(FrameworkFastify, ver("fastify"), OutputTypeServer)
        ELSE IF HasDependency(p, "express")
        THEN FrameworkInfo(FrameworkExpress, ver("express"), OutputTypeServer)
        ELSE IF HasDependency(p, "react-scripts")
        THEN FrameworkInfo(FrameworkCRA, ver("react-scripts"), OutputTypeStatic)
        ELSE IF \/ HasDependency(p, "vite")
                \/ HasFile(c, "vite.config.js")
                \/ HasFile(c, "vite.config.ts")
                \/ HasFile(c, "vite.config.mjs")
        THEN FrameworkInfo(FrameworkVite, ver("vite"), OutputTypeStatic)
        ELSE FrameworkInfo(FrameworkNone, <<>>, OutputTypeNone)

\* the head of the decision list, from next to angular; rest is what the
\* rules after angular give
MetaFrameworkOr(c, p, rest) ==
    LET ver(d) == cleanVersion(GetDependencyVersion(p, d))
    IN  IF HasDependency(p, "next")
        THEN FrameworkInfo(FrameworkNextJS, ver("next"),
                 IF isNextJSStaticExport(c) THEN OutputTypeStatic
                 ELSE OutputTypeServer)
        ELSE IF HasDependency(p, "@remix-run/react") \/ HasDependency(p, "@remix-run/node")
        THEN FrameworkInfo(FrameworkRemix, ver("@remix-run/react"), OutputTypeServer)
        ELSE IF HasDependency(p, "nuxt") \/ HasDependency(p, "nuxt3")
        THEN FrameworkInfo(FrameworkNuxt, ver("nuxt"),
                 IF isNuxtSPAMode(c) THEN OutputTypeStatic ELSE OutputTypeServer)
        ELSE IF \/ HasDependency(p, "astro")
                \/ HasFile(c, "astro.config.mjs")
                \/ HasFile(c, "astro.config.js")
                \/ HasFile(c, "astro.config.ts")
        THEN FrameworkInfo(FrameworkAstro, ver("astro"),
                 IF isAstroSSRMode(c) THEN OutputTypeServer ELSE OutputTypeStatic)
        ELSE IF HasDependency(p, "@sveltejs/kit")
        THEN FrameworkInfo(FrameworkSvelteKit, ver("@sveltejs/kit"),
                 IF HasDependency(p, "@sveltejs/adapter-static")
                 THEN OutputTypeStatic ELSE OutputTypeServer)
        ELSE IF HasDependency(p, "solid-start") \/ HasDependency(p, "@solidjs/start")
        THEN FrameworkInfo(FrameworkSolidStart,
                 cleanVersion(IF GetDependencyVersion(p, "@solidjs/start") = <<>>
                              THEN GetDependencyVersion(p, "solid-start")
                              ELSE GetDependencyVersion(p, "@solidjs/start")),
                 IF isSolidStartSPAMode(c) THEN OutputTypeStatic
                 ELSE OutputTypeServer)
        ELSE IF \/ HasDependency(p, "@tanstack/start")
                \/ HasDependency(p, "@tanstack/react-start")
        THEN FrameworkInfo(FrameworkTanStack, ver("@tanstack/start"),
                 IF isTanStackStartStaticMode(c) THEN OutputTypeStatic
                 ELSE OutputTypeServer)
        ELSE IF /\ HasDependency(p, "react-router")
                /\ (HasFile(c, "react-router.config.ts")
                    \/ HasFile(c, "react-router.config.js"))
        THEN FrameworkInfo(FrameworkRemix, ver("react-router"),
                 IF isReactRouterSPAMode(c) THEN OutputTypeStatic
                 ELSE OutputTypeServer)
        ELSE IF HasDependency(p, "gatsby")
        THEN FrameworkInfo(FrameworkGatsby, ver("gatsby"), OutputTypeStatic)
        ELSE IF HasDependency(p, "@11ty/eleventy")
        THEN FrameworkInfo(FrameworkEleventy, ver("@11ty/eleventy"), OutputTypeStatic)
        ELSE IF HasDependency(p, "@angular/core") \/ HasFile(c, "angular.json")
        THEN FrameworkInfo(FrameworkAngular, ver("@angular/core"),
                 IF HasDependency(p, "@angular/ssr") THEN OutputTypeServer
                 ELSE OutputTypeStatic)
        ELSE rest

\* the decision list with the backend frameworks and the bundlers tried
\* before the meta-frameworks
DetectFrameworkBackendFirst(c, p) ==
    LET tail == DetectBackendOrBundler(c, p)
    IN  IF tail.Name # FrameworkNone THEN tail ELSE MetaFrameworkOr(c, p, tail)

\* DetectFramework whose vite rule leaves the output type unset
DetectFrameworkViteUntyped(c, p) ==
    LET rest == DetectBackendOrBundler(c, p)
    IN  MetaFrameworkOr(c, p, IF rest.Name = FrameworkVite
                              THEN [rest EXCEPT !.OutputType = OutputTypeNone]
                              ELSE rest)

DetectFramework(c, p) == MetaFrameworkOr(c, p, DetectBackendOrBundler(c, p))

-----------------------------------------------------------------------------
(* Node provider *)

GetDefaultBuildCommand(fw, pm) ==
    IF fw.Name \in {FrameworkNextJS, FrameworkRemix, FrameworkNuxt, FrameworkAstro,
                    FrameworkVite, FrameworkCRA, FrameworkAngular,
                    FrameworkSvelteKit, FrameworkGatsby}
    THEN GetRunCommand(pm) \o <<"build">>
    ELSE <<>>

GetDefaultStartCommand(fw, pm) ==
    CASE fw.Name \in {FrameworkNextJS, FrameworkRemix} -> GetRunCommand(pm) \o <<"start">>
      [] fw.Name = FrameworkNuxt -> <<"node", ".output/server/index.mjs">>
      [] fw.Name = FrameworkAstro -> <<"node", "./dist/server/entry.mjs">>
      [] fw.Name \in {FrameworkNestJS, FrameworkExpress, FrameworkFastify} ->
            GetRunCommand(pm) \o <<"start">>
      [] OTHER -> <<>>

determineBuildCommand(p, pm, fw) ==
    IF HasScript(p, "build") THEN GetRunCommand(pm) \o <<"build">>
    ELSE GetDefaultBuildCommand(fw, pm)

hasEntryPoint(p, ep) == p.Main = ep

entryPoints == <<"dist/index.js", "build/index.js", "index.js", "server.js", "app.js">>

\* determineStartCommand that asks the framework before the scripts
determineStartCommandDefaultFirst(p, pm, fw) ==
    IF GetDefaultStartCommand(fw, pm) # <<>> THEN GetDefaultStartCommand(fw, pm)
    ELSE IF HasScript(p, "start") THEN GetRunCommand(pm) \o <<"start">>
    ELSE IF HasScript(p, "serve") THEN GetRunCommand(pm) \o <<"serve">>
    ELSE IF p.Main # "" THEN <<"node", p.Main>>
    ELSE <<>>

determineStartCommand(p, pm, fw) ==
    IF HasScript(p, "start") THEN GetRunCommand(pm) \o <<"start">>
    ELSE IF HasScript(p, "serve") THEN GetRunCommand(pm) \o <<"serve">>
    ELSE IF GetDefaultStartCommand(fw, pm) # <<>> THEN GetDefaultStartCommand(fw, pm)
    ELSE IF p.Main # "" THEN <<"node", p.Main>>
    ELSE IF \E i \in 1..Len(entryPoints) : hasEntryPoint(p, entryPoints[i])
    THEN <<"node", entryPoints[CHOOSE i \in 1..Len(entryPoints) :
                        /\ hasEntryPoint(p, entryPoints[i])
                        /\ \A j \in 1..(i - 1) : ~hasEntryPoint(p, entryPoints[j])]>>
    ELSE <<>>

versionFiles == <<".nvmrc", ".node-version", ".tool-versions", "mise.toml">>

configFiles ==
    <<".yarnrc.yml", ".yarnrc.yaml", ".npmrc", ".pnpmrc",
      "tsconfig.json", "jsconfig.json",
      "vite.config.js", "vite.config.ts", "vite.config.mjs",
      "next.config.js", "next.config.mjs", "next.config.ts",
      "astro.config.mjs", "astro.config.js", "astro.config.ts",
      "angular.json", "remix.config.js", "nuxt.config.ts", "nuxt.config.js">>

\* the names of the list that exist, in the list's order
RECURSIVE existingOf(_, _)
existingOf(c, names) ==
    IF names = <<>> THEN <<>>
    ELSE (IF HasFile(c, Head(names)) THEN <<Head(names)>> ELSE <<>>)
         \o existingOf(c, Tail(names))

detectRelevantFiles(c, pm) ==
    existingOf(c, <<GetLockFile(pm)>>) \o existingOf(c, versionFiles)
        \o existingOf(c, configFiles)

spaRouters ==
    {"vue-router", "react-router-dom", "react-router", "@reach/router", "wouter",
     "@tanstack/react-router", "svelte-navigator", "svelte-routing",
     "@roxi/routify", "@solidjs/router", "solid-app-router", "preact-router",
     "navigo", "page"}

detectSPA(p, fw) ==
    IF fw.Name \in {FrameworkGatsby, FrameworkEleventy, FrameworkNextJS,
                    FrameworkNuxt, FrameworkAstro}
    THEN FALSE
    ELSE \E r \in spaRouters : HasDependency(p, r)

\* a metadata entry that is set only under a condition
\* The catalog of packages that need system libraries, in its order.
PlaywrightAptPackages ==
    <<"libnss3", "libatk1.0-0", "libatk-bridge2.0-0", "libcups2", "libdrm2",
      "libxkbcommon0", "libxcomposite1", "libxdamage1", "libxfixes3", "libxrandr2",
      "libgbm1", "libasound2", "libpango-1.0-0", "libcairo2">>

NativeDependency(package, apt) == [Package |-> package, AptPackages |-> apt]

NativeDependencies ==
    <<NativeDependency("sharp", <<"libvips-dev">>),
      NativeDependency("@prisma/client", <<"openssl">>),
      NativeDependency("prisma", <<"openssl">>),
      NativeDependency("puppeteer", <<"chromium">> \o PlaywrightAptPackages),
      NativeDependency("playwright", PlaywrightAptPackages),
      NativeDependency("canvas", <<"libcairo2-dev", "libjpeg-dev", "libpango1.0-dev",
                                   "libgif-dev", "librsvg2-dev">>),
      NativeDependency("bcrypt", <<"build-essential", "python3">>),
      NativeDependency("argon2", <<"build-essential">>),
      NativeDependency("sqlite3", <<"build-essential", "python3">>),
      NativeDependency("better-sqlite3", <<"build-essential", "python3">>),
      NativeDependency("node-gyp", <<"build-essential", "python3">>),
      NativeDependency("cpu-features", <<"build-essential">>),
      NativeDependency("ssh2", <<"build-essential">>),
      NativeDependency("libsql", <<"build-essential">>),
      NativeDependency("@libsql/client", <<"build-essential">>)>>

\* the loop of DetectNativeDependencies over NativeDependencies[i..]
RECURSIVE detectNativeFrom(_, _)
detectNativeFrom(p, i) ==
    IF i > Len(NativeDependencies) THEN <<>>
    ELSE (IF HasDependency(p, NativeDependencies[i].Package)
          THEN <<NativeDependencies[i]>> ELSE <<>>)
         \o detectNativeFrom(p, i + 1)

DetectNativeDependencies(p) == detectNativeFrom(p, 1)

\* the inner loop of GetRequiredAptPackages: seen holds what packages holds
RECURSIVE appendUnseen(_, _)
appendUnseen(packages, apt) ==
    IF apt = <<>> THEN packages
    ELSE appendUnseen(IF \E k \in 1..Len(packages) : packages[k] = Head(apt)
                      THEN packages ELSE Append(packages, Head(apt)),
                      Tail(apt))

\* the outer loop of GetRequiredAptPackages
RECURSIVE requiredAptFrom(_, _)
requiredAptFrom(packages, deps) ==
    IF deps = <<>> THEN packages
    ELSE requiredAptFrom(appendUnseen(packages, Head(deps).AptPackages), Tail(deps))

\* GetRequiredAptPackages that appends every entry's list as it stands
RECURSIVE GetRequiredAptPackagesAll(_)
GetRequiredAptPackagesAll(deps) ==
    IF deps = <<>> THEN <<>>
    ELSE Head(deps).AptPackages \o GetRequiredAptPackagesAll(Tail(deps))

GetRequiredAptPackages(deps) == requiredAptFrom(<<>>, deps)

\* detected = append(detected, dep.Package) for every detected entry
PackagesOf(deps) == [i \in 1..Len(deps) |-> deps[i].Package]

MetaIf(cond, key, val) == IF cond THEN (key :> val) ELSE <<>>

\* Provider.Plan after package.json was read and parsed
BuildPlan(c, p) ==
    LET pm == DetectPackageManager(c, p)
        nv == DetectNodeVersion(c, p)
        fw == DetectFramework(c, p)
        isBun == pm.Name = PackageManagerBun
        outputType == IF fw.Name # FrameworkNone THEN fw.OutputType ELSE OutputTypeNone
        nativeDeps == DetectNativeDependencies(p)
    IN  [Provider |-> "node",
         Language |-> IF isBun THEN "bun" ELSE "nodejs",
         LanguageVersion |->
             IF isBun
             THEN (IF pm.Version # <<>> THEN pm.Version
                   ELSE <<"l", "a", "t", "e", "s", "t">>)
             ELSE nv,
         PackageManager |-> pm.Name,
         PackageManagerVersion |-> pm.Version,
         Framework |-> fw.Name,
         FrameworkVersion |-> IF fw.Name # FrameworkNone THEN fw.Version ELSE <<>>,
         InstallCommand |-> GetInstallCommand(pm),
         BuildCommand |-> determineBuildCommand(p, pm, fw),
         StartCommand |-> determineStartCommand(p, pm, fw),
         DetectedFiles |-> <<"package.json">> \o detectRelevantFiles(c, pm),
         Metadata |->
             MetaIf(isBun, "runtime", "bun")
             @@ MetaIf(isBun, "runtime_note", "Using Bun runtime (oven/bun image)")
             @@ MetaIf(outputType # OutputTypeNone, "output_type", outputType)
             @@ MetaIf(p.Name # "", "name", p.Name)
             @@ MetaIf(p.Version # "", "version", p.Version)
             @@ MetaIf(IsMonorepo(p), "is_monorepo", TRUE)
             @@ MetaIf(IsMonorepo(p), "workspaces", p.Workspaces)
             @@ MetaIf(p.Type # "", "module_type", p.Type)
             @@ MetaIf(Len(nativeDeps) > 0, "apt_packages",
                       GetRequiredAptPackages(nativeDeps))
             @@ MetaIf(Len(nativeDeps) > 0, "native_packages", PackagesOf(nativeDeps))
             @@ MetaIf(c.Env["COOLPACK_BASE_IMAGE"] # <<>>, "base_image",
                       c.Env["COOLPACK_BASE_IMAGE"])
             @@ MetaIf(HasDependency(p, "cypress"), "has_cypress", TRUE)
             @@ MetaIf(HasFile(c, ".moon/workspace.yml"), "has_moon", TRUE)
             @@ MetaIf(Len(p.CacheDirectories) > 0, "cache_directories",
                       p.CacheDirectories)
             @@ MetaIf(outputType = OutputTypeStatic /\ detectSPA(p, fw),
                       "is_spa", TRUE)]

\* A (*Plan, error) result: plan is <<>> for nil and <<p>> for a plan, err is
\* "" for nil.
Result(plan, err) == [plan |-> plan, err |-> err]

\* Provider.Plan that names nodejs as the language whatever the package
\* manager is
NodePlanAlwaysNodejs(c) ==
    IF ~ReadFileOk(c, "package.json")
    THEN Result(<<>>, "failed to read package.json")
    ELSE IF ~c.manifest.valid
    THEN Result(<<>>, "failed to parse package.json")
    ELSE Result(<<[BuildPlan(c, c.manifest.pkg) EXCEPT !.Language = "nodejs"]>>, "")

NodePlanNodeVersion(c) ==
    IF ~ReadFileOk(c, "package.json")
    THEN Result(<<>>, "failed to read package.json")
    ELSE IF ~c.manifest.valid
    THEN Result(<<>>, "failed to parse package.json")
    ELSE Result(<<[BuildPlan(c, c.manifest.pkg) EXCEPT
                      !.LanguageVersion = DetectNodeVersion(c, c.manifest.pkg)]>>, "")

\* Plan with the start command taken from COOLPACK_START_CMD when it is set
NodePlanStartOverride(c) ==
    IF ~ReadFileOk(c, "package.json")
    THEN Result(<<>>, "failed to read package.json")
    ELSE IF ~c.manifest.valid
    THEN Result(<<>>, "failed to parse package.json")
    ELSE Result(<<[BuildPlan(c, c.manifest.pkg) EXCEPT
                      !.StartCommand =
                          IF c.Env["COOLPACK_START_CMD"] # <<>>
                          THEN <<"sh", "-c", "$COOLPACK_START_CMD">> ELSE @]>>, "")

NodePlan(c) ==
    IF ~ReadFileOk(c, "package.json")
    THEN Result(<<>>, "failed to read package.json")
    ELSE IF ~c.manifest.valid
    THEN Result(<<>>, "failed to parse package.json")
    ELSE Result(<<BuildPlan(c, c.manifest.pkg)>>, "")

NodeDetect(c) == [detected |-> HasFile(c, "package.json"), err |-> FALSE]

-----------------------------------------------------------------------------
(* Detector *)

\* A registered detector.Provider.  "node" is node.Provider; any other
\* provider is known to the Detector only through the interface, so it is
\* given by what its Detect and its Plan answer.
NodeProvider == [name |-> "node", detects |-> FALSE, detectErr |-> FALSE, planErr |-> FALSE]

ProviderDetect(p, c) ==
    IF p.name = "node" THEN NodeDetect(c)
    ELSE [detected |-> p.detects, err |-> p.detectErr]

ProviderPlan(p, c) ==
    IF p.name = "node" THEN NodePlan(c)
    ELSE IF p.planErr THEN Result(<<>>, "plan failed")
    ELSE Result(<<[Provider |-> p.name]>>, "")

EnvVars ==
    {"COOLPACK_INSTALL_CMD", "COOLPACK_BUILD_CMD", "COOLPACK_START_CMD",
     "COOLPACK_BASE_IMAGE", "COOLPACK_NODE_VERSION", "COOLPACK_SPA_OUTPUT_DIR",
     "COOLPACK_STATIC_SERVER", "NODE_VERSION"}

\* an unset variable and a variable set to "" both read as <<>>
loadRelevantEnvVars(os) ==
    [v \in EnvVars |-> IF v \in DOMAIN os THEN os[v] ELSE <<>>]

NoEnv == [v \in EnvVars |-> <<>>]

\* ctx := app.NewContext(d.path); ctx.Env = loadRelevantEnvVars()
DetectBegin ==
    /\ pc = "start"
    /\ ctx' = [ctx EXCEPT !.Env = loadRelevantEnvVars(osEnv)]
    /\ idx' = 1
    /\ pc' = "loop"
    /\ UNCHANGED <<osEnv, pkg, pmInfo, nodeVersion, fwInfo, root, propertyName,
                   path, propValue, providers, consulted, planner, ret>>

\* a Detect error ends the detection with that error
ProviderErroredAborts ==
    /\ pc = "loop"
    /\ idx <= Len(providers)
    /\ ProviderDetect(providers[idx], ctx).err
    /\ consulted' = Append(consulted, idx)
    /\ ret' = Result(<<>>, "detect failed")
    /\ pc' = "done"
    /\ UNCHANGED <<osEnv, ctx, pkg, pmInfo, nodeVersion, fwInfo, root,
                   propertyName, path, propValue, providers, idx, planner>>

\* provider.Detect returned an error: continue
ProviderErrored ==
    /\ pc = "loop"
    /\ idx <= Len(providers)
    /\ ProviderDetect(providers[idx], ctx).err
    /\ consulted' = Append(consulted, idx)
    /\ idx' = idx + 1
    /\ UNCHANGED <<osEnv, ctx, pkg, pmInfo, nodeVersion, fwInfo, root,
                   propertyName, path, propValue, providers, planner, ret, pc>>

\* provider.Detect returned false: next provider
ProviderDeclined ==
    /\ pc = "loop"
    /\ idx <= Len(providers)
    /\ ~ProviderDetect(providers[idx], ctx).err
    /\ ~ProviderDetect(providers[idx], ctx).detected
    /\ consulted' = Append(consulted, idx)
    /\ idx' = idx + 1
    /\ UNCHANGED <<osEnv, ctx, pkg, pmInfo, nodeVersion, fwInfo, root,
                   propertyName, path, propValue, providers, planner, ret, pc>>

\* a failed Plan sends the loop on to the next provider
ProviderDetectedFallThrough ==
    /\ pc = "loop"
    /\ idx <= Len(providers)
    /\ ~ProviderDetect(providers[idx], ctx).err
    /\ ProviderDetect(providers[idx], ctx).detected
    /\ consulted' = Append(consulted, idx)
    /\ planner' = idx
    /\ IF ProviderPlan(providers[idx], ctx).err # ""
       THEN /\ idx' = idx + 1
            /\ UNCHANGED <<ret, pc>>
       ELSE /\ ret' = ProviderPlan(providers[idx], ctx)
            /\ pc' = "done"
            /\ idx' = idx
    /\ UNCHANGED <<osEnv, ctx, pkg, pmInfo, nodeVersion, fwInfo, root,
                   propertyName, path, propValue, providers>>

\* provider.Detect returned true: return provider.Plan(ctx)
ProviderDetected ==
    /\ pc = "loop"
    /\ idx <= Len(providers)
    /\ ~ProviderDetect(providers[idx], ctx).err
    /\ ProviderDetect(providers[idx], ctx).detected
    /\ consulted' = Append(consulted, idx)
    /\ planner' = idx
    /\ ret' = ProviderPlan(providers[idx], ctx)
    /\ pc' = "done"
    /\ UNCHANGED <<osEnv, ctx, pkg, pmInfo, nodeVersion, fwInfo, root,
                   propertyName, path, propValue, providers, idx>>

\* the loop ended: return nil, nil
DetectNone ==
    /\ pc = "loop"
    /\ idx > Len(providers)
    /\ ret' = Result(<<>>, "")
    /\ pc' = "done"
    /\ UNCHANGED <<osEnv, ctx, pkg, pmInfo, nodeVersion, fwInfo, root,
                   propertyName, path, propValue, providers, idx, consulted,
                   planner>>

-----------------------------------------------------------------------------
(* Inputs of the model *)

MaxProviders == 3
MaxDeps == 2
MaxRuleFiles == 1
MaxPairs == 2
MaxPath == 2

\* the sequences over S of length 0..n
RECURSIVE SeqsUpTo(_, _)
SeqsUpTo(S, n) ==
    IF n = 0 THEN {<<>>}
    ELSE LET shorter == SeqsUpTo(S, n - 1)
         IN  shorter \cup {Append(q, x) : q \in shorter, x \in S}

\* the subsets of S with at most n elements
RECURSIVE SubsetsUpTo(_, _)
SubsetsUpTo(S, n) ==
    IF n = 0 THEN {{}}
    ELSE LET smaller == SubsetsUpTo(S, n - 1)
         IN  smaller \cup {T \cup {x} : T \in smaller, x \in S}

VersionFileSet == {".nvmrc", ".node-version", ".tool-versions", "mise.toml"}

LockFileSet ==
    {"pnpm-lock.yaml", "bun.lockb", "bun.lock", ".yarnrc.yml", ".yarnrc.yaml",
     "yarn.lock", "package-lock.json"}

ConfigFileSet ==
    {"next.config.ts", "next.config.mjs", "next.config.js",
     "astro.config.ts", "astro.config.mjs", "astro.config.js",
     "nuxt.config.ts", "nuxt.config.js", "nuxt.config.mjs",
     "react-router.config.ts", "react-router.config.js",
     "app.config.ts", "app.config.js"}

\* export default {}
EmptyConfig == Program(<<ExportDefault(ObjectNode(<<>>))>>)

Parsed(tree) == [err |-> FALSE, root |-> tree]

ParseError == [err |-> TRUE, root |-> NilNode]

EmptyContext ==
    [files |-> {}, unreadable |-> {},
     text |-> <<>>, parse |-> <<>>,
     manifest |-> [valid |-> TRUE, pkg |-> EmptyPackageJSON],
     Env |-> NoEnv]

NoPMInfo == [Name |-> "", Version |-> <<>>]

NoFrameworkInfo == FrameworkInfo(FrameworkNone, <<>>, OutputTypeNone)

\* the variables a specification does not use keep these values
IdleResolvers ==
    /\ pmInfo = NoPMInfo
    /\ nodeVersion = <<>>
    /\ fwInfo = NoFrameworkInfo

IdleTree ==
    /\ root = NilNode
    /\ propertyName = <<>>
    /\ path = <<>>
    /\ propValue = <<>>

IdleDetector ==
    /\ osEnv = <<>>
    /\ providers = <<>>
    /\ idx = 0
    /\ consulted = <<>>
    /\ planner = 0
    /\ ret = Result(<<>>, "")

-----------------------------------------------------------------------------
(* DetectPackageManager on every combination of its signals *)

PMNames == {<<>>, pnpmS, yarnS, bunS, npmS, denoS}

PMTails ==
    {<<>>,
     <<"@">>,
     <<"@", "8", ".", "6", ".", "0">>,
     <<"@", "1", ".", "2", "2">>,
     <<"@", "3", ".", "2", "+", "s", "h", "a">>}

EngineRanges == {<<>>, <<">", "=", "1">>}

InitPM ==
    /\ pc = "pm"
    /\ \E n \in PMNames, t \in PMTails, ep \in EngineRanges, eb \in EngineRanges,
          ey \in EngineRanges :
          pkg = [EmptyPackageJSON EXCEPT
                    !.PackageManager = n \o t,
                    !.Engines = [NoEngines EXCEPT !.PNPM = ep, !.Bun = eb, !.Yarn = ey]]
    /\ \E fs \in SUBSET LockFileSet : ctx = [EmptyContext EXCEPT !.files = fs]
    /\ IdleResolvers /\ IdleTree /\ IdleDetector

DoDetectPackageManager ==
    /\ pc = "pm"
    /\ pmInfo' = DetectPackageManager(ctx, pkg)
    /\ pc' = "done"
    /\ UNCHANGED <<osEnv, ctx, pkg, nodeVersion, fwInfo, root, propertyName, path,
                   propValue, providers, idx, consulted, planner, ret>>

NextPM == DoDetectPackageManager

SpecPM == InitPM /\ [][NextPM]_vars

-----------------------------------------------------------------------------
(* DetectNodeVersion on its sources *)

\* what a version file can be: missing, unreadable, or readable with a text
Missing == [state |-> "missing", text |-> <<>>]

Unreadable == [state |-> "unreadable", text |-> <<>>]

Readable(t) == [state |-> "readable", text |-> t]

NvmrcStates ==
    {Missing, Unreadable, Readable(<<>>),
     Readable(<<"v", "1", "8", ".", "2", ".", "0", "\n">>),
     Readable(<<"l", "t", "s", "/", "i", "r", "o", "n">>)}

NodeVersionFileStates ==
    {Missing, Readable(<<"\n">>), Readable(<<" ", "1", "6", "\n">>),
     Readable(<<"v", "L", "T", "S", "/", "*">>)}

ToolVersionsStates ==
    {Missing, Unreadable,
     Readable(<<"r", "u", "b", "y", " ", "3", "\n">>),
     Readable(<<"r", "u", "b", "y", " ", "3", "\n",
                "n", "o", "d", "e", "j", "s", " ", " ", "v", "2", "0", ".", "1", "\n">>),
     Readable(<<"n", "o", "d", "e", "j", "s", "\n">>),
     Readable(<<"n", "o", "d", "e", "j", "s", " ", "l", "t", "s", "\n">>)}

MiseTomlStates ==
    {Missing, Readable(<<>>),
     Readable(<<"[", "t", "o", "o", "l", "s", "]", "\n",
                "n", "o", "d", "e", " ", "=", " ", "\"", "2", "2", "\"">>),
     Readable(<<"n", "o", "d", "e", "j", "s", "=", "\"", "v", "1", "9", "\"">>),
     Readable(<<"n", "o", "d", "e", " ", "=", " ", "\"", "\"">>),
     Readable(<<"n", "o", "d", "e", "=", "\"", "l", "t", "s", "\"">>)}

NodeVersionOverrides == {<<>>, <<"v", "2", "0">>, <<"v">>}

LegacyOverrides == {<<>>, <<" ", "1", "7", " ">>}

NodeEngineRanges ==
    {<<>>, <<">", "=", "1", "8", " ", "<", "2", "1">>, <<"*">>}

\* the Context in which the four version files are in the given states
VersionContext(nvmrc, nodev, tools, mise, override, legacy) ==
    LET st == (".nvmrc" :> nvmrc) @@ (".node-version" :> nodev)
              @@ (".tool-versions" :> tools) @@ ("mise.toml" :> mise)
    IN  [EmptyContext EXCEPT
            !.files = {f \in VersionFileSet : st[f].state # "missing"},
            !.unreadable = {f \in VersionFileSet : st[f].state = "unreadable"},
            !.text = [f \in {g \in VersionFileSet : st[g].state = "readable"}
                         |-> st[f].text],
            !.Env = [NoEnv EXCEPT !["COOLPACK_NODE_VERSION"] = override,
                                  !["NODE_VERSION"] = legacy]]

InitVersion ==
    /\ pc = "version"
    /\ \E e \in NodeEngineRanges :
          pkg = [EmptyPackageJSON EXCEPT !.Engines = [NoEngines EXCEPT !.Node = e]]
    /\ \E nvmrc \in NvmrcStates, nodev \in NodeVersionFileStates,
          tools \in ToolVersionsStates, mise \in MiseTomlStates,
          override \in NodeVersionOverrides, legacy \in LegacyOverrides :
          ctx = VersionContext(nvmrc, nodev, tools, mise, override, legacy)
    /\ pmInfo = NoPMInfo
    /\ nodeVersion = <<>>
    /\ fwInfo = NoFrameworkInfo
    /\ IdleTree /\ IdleDetector

DoDetectNodeVersion ==
    /\ pc = "version"
    /\ nodeVersion' = DetectNodeVersion(ctx, pkg)
    /\ pc' = "done"
    /\ UNCHANGED <<osEnv, ctx, pkg, pmInfo, fwInfo, root, propertyName, path,
                   propValue, providers, idx, consulted, planner, ret>>

NextVersion == DoDetectNodeVersion

SpecVersion == InitVersion /\ [][NextVersion]_vars

-----------------------------------------------------------------------------
(* Claims about the package manager resolver *)

PMField == GetPackageManagerInfo(pkg)

\* the ten rules of C1, as conditions on the signals
PMRuleHolds(k) ==
    CASE k = 1 -> PMField.name \in {pnpmS, yarnS, bunS, npmS}
      [] k = 2 -> "pnpm-lock.yaml" \in ctx.files
      [] k = 3 -> "bun.lockb" \in ctx.files \/ "bun.lock" \in ctx.files
      [] k = 4 -> ".yarnrc.yml" \in ctx.files \/ ".yarnrc.yaml" \in ctx.files
      [] k = 5 -> "yarn.lock" \in ctx.files
      [] k = 6 -> "package-lock.json" \in ctx.files
      [] k = 7 -> pkg.Engines.PNPM # <<>>
      [] k = 8 -> pkg.Engines.Bun # <<>>
      [] k = 9 -> pkg.Engines.Yarn # <<>>
      [] OTHER -> TRUE

\* the package manager each rule names
PMRuleNames(k) ==
    CASE k = 1 -> IF PMField.name = pnpmS THEN {"pnpm"}
                  ELSE IF PMField.name = yarnS THEN {"yarn", "yarnberry"}
                  ELSE IF PMField.name = bunS THEN {"bun"}
                  ELSE {"npm"}
      [] k \in {2, 7} -> {"pnpm"}
      [] k \in {3, 8} -> {"bun"}
      [] k = 4 -> {"yarnberry"}
      [] k \in {5, 9} -> {"yarn"}
      [] OTHER -> {"npm"}

PMFirstRule == CHOOSE k \in 1..10 : PMRuleHolds(k) /\ \A j \in 1..(k - 1) : ~PMRuleHolds(j)

\* C1: DetectPackageManager returns the result of the first matching rule of
\* the order packageManager field, pnpm-lock.yaml, bun.lockb/bun.lock,
\* .yarnrc.yml/.yarnrc.yaml, yarn.lock, package-lock.json, engines.pnpm,
\* engines.bun, engines.yarn, npm; the version is the field's version under
\* the first rule and empty under every other rule.
C1_FirstMatchingRule ==
    pc = "done" =>
        /\ pmInfo.Name \in PMRuleNames(PMFirstRule)
        /\ pmInfo.Version = (IF PMFirstRule = 1 THEN PMField.version ELSE <<>>)

\* packageManager "pnpm@8.6.0" beside a yarn.lock gave pnpm 8.6.0
C1_Witness ==
    /\ pc = "done"
    /\ pkg.PackageManager = pnpmS \o <<"@", "8", ".", "6", ".", "0">>
    /\ "yarn.lock" \in ctx.files
    /\ pkg.Engines.Bun # <<>>
    /\ pmInfo = [Name |-> "pnpm", Version |-> <<"8", ".", "6", ".", "0">>]

-----------------------------------------------------------------------------
(* Claims about the runtime version resolver *)

VersionSources == 1..7

\* the value each source yields, in the order of C2
SourceValue(k) ==
    CASE k = 1 -> normalizeVersion(ctx.Env["COOLPACK_NODE_VERSION"])
      [] k = 2 -> normalizeVersion(ctx.Env["NODE_VERSION"])
      [] k = 3 -> parseEngineVersion(pkg.Engines.Node)
      [] k = 4 -> IF ReadFileOk(ctx, ".nvmrc")
                  THEN parseVersionFile(ctx.text[".nvmrc"]) ELSE <<>>
      [] k = 5 -> IF ReadFileOk(ctx, ".node-version")
                  THEN parseVersionFile(ctx.text[".node-version"]) ELSE <<>>
      [] k = 6 -> IF ReadFileOk(ctx, ".tool-versions")
                  THEN parseToolVersions(ctx.text[".tool-versions"], nodejsS)
                  ELSE <<>>
      [] OTHER -> IF ReadFileOk(ctx, "mise.toml")
                  THEN parseMiseToml(ctx.text["mise.toml"]) ELSE <<>>

YieldingSources == {k \in VersionSources : SourceValue(k) # <<>>}

FirstYieldingSource == CHOOSE k \in YieldingSources : \A j \in YieldingSources : k <= j

\* C2: DetectNodeVersion returns the value of the first source, in the order
\* COOLPACK_NODE_VERSION, NODE_VERSION, engines.node, .nvmrc, .node-version,
\* .tool-versions, mise.toml, that yields a non-empty value, and the default
\* when none does; a source that yields no value is skipped.
C2_FirstNonEmptySource ==
    pc = "done" =>
        nodeVersion = (IF YieldingSources = {} THEN DefaultNodeVersion
                       ELSE SourceValue(FirstYieldingSource))

\* C3: DetectNodeVersion never returns an empty string.
C3_NeverEmpty == pc = "done" => nodeVersion # <<>>

\* the text a version file holds for the Node version, before it is cleaned:
\* the whole file, the second field of the first nodejs line, the quoted
\* string of the node key
RawFileValue(f) ==
    CASE f = ".tool-versions" ->
            LET lines == Split(ctx.text[f], "\n")
                hits == {i \in 1..Len(lines) :
                            /\ Len(Fields(lines[i])) >= 2
                            /\ Fields(lines[i])[1] = nodejsS}
            IN  IF hits = {} THEN <<>>
                ELSE Fields(lines[CHOOSE i \in hits : \A j \in hits : i <= j])[2]
      [] f = "mise.toml" -> miseFindFrom(ctx.text[f], 1)
      [] OTHER -> ctx.text[f]

\* what C10 says a version file's value becomes
CleanedFileValue(f) ==
    LET v == TrimPrefix(TrimSpace(RawFileValue(f)), <<"v">>)
    IN  IF HasPrefix(ToLower(v), ltsS) THEN DefaultNodeVersion ELSE v

\* C10: the value taken from .nvmrc, .node-version, .tool-versions or
\* mise.toml is whitespace-trimmed, loses a leading v, and becomes the
\* default version when it begins, in any letter case, with lts.
C10_FileValuesCleaned ==
    pc = "done" =>
        \A f \in VersionFileSet :
            (/\ ctx.files = {f}
             /\ ctx.unreadable = {}
             /\ ctx.Env = NoEnv
             /\ pkg.Engines.Node = <<>>
             /\ CleanedFileValue(f) # <<>>)
            => nodeVersion = CleanedFileValue(f)

-----------------------------------------------------------------------------
(* DetectFramework on manifests and files that satisfy several rules *)

FrameworkPackages ==
    {"next", "@remix-run/react", "@remix-run/node", "nuxt", "nuxt3", "astro",
     "@sveltejs/kit", "@sveltejs/adapter-static", "solid-start", "@solidjs/start",
     "@tanstack/start", "@tanstack/react-start", "react-router", "gatsby",
     "@11ty/eleventy", "@angular/core", "@angular/ssr", "@adonisjs/core",
     "@nestjs/core", "fastify", "express", "react-scripts", "vite"}

\* the files whose presence alone a rule of DetectFramework tests
RuleFiles ==
    {"astro.config.mjs", "astro.config.js", "astro.config.ts", "angular.json",
     "vite.config.js", "vite.config.ts", "vite.config.mjs",
     "react-router.config.ts", "react-router.config.js"}

DeclaredRange == <<"^", "1", ".", "2">>

InitFramework ==
    /\ pc = "framework"
    /\ \E deps \in SubsetsUpTo(FrameworkPackages, MaxDeps), dev \in BOOLEAN :
          pkg = [EmptyPackageJSON EXCEPT
                    !.Dependencies = [d \in (IF dev THEN {} ELSE deps) |-> DeclaredRange],
                    !.DevDependencies = [d \in (IF dev THEN deps ELSE {}) |-> DeclaredRange]]
    /\ \E fs \in SubsetsUpTo(RuleFiles, MaxRuleFiles) :
          ctx = [EmptyContext EXCEPT
                    !.files = fs,
                    !.parse = [f \in fs \cap ConfigFileSet |-> Parsed(EmptyConfig)]]
    /\ IdleResolvers /\ IdleTree /\ IdleDetector

DoDetectFramework ==
    /\ pc \in {"framework", "config"}
    /\ fwInfo' = DetectFramework(ctx, pkg)
    /\ pc' = "done"
    /\ UNCHANGED <<osEnv, ctx, pkg, pmInfo, nodeVersion, root, propertyName, path,
                   propValue, providers, idx, consulted, planner, ret>>

NextFramework == DoDetectFramework

SpecFramework == InitFramework /\ [][NextFramework]_vars

-----------------------------------------------------------------------------
(* DetectFramework on the configuration files of the frameworks that have a
   static/server split *)

ObjectConfig(pairs) == Program(<<ExportDefault(ObjectNode(pairs))>>)

ConfigTrees ==
    {EmptyConfig,
     ObjectConfig(<<PairNode(PropertyIdentifier(outputS), StringNode("\"", exportS))>>),
     ObjectConfig(<<PairNode(PropertyIdentifier(outputS), StringNode("'", serverS))>>),
     ObjectConfig(<<PairNode(PropertyIdentifier(outputS), StringNode("\"", hybridS))>>),
     ObjectConfig(<<PairNode(PropertyIdentifier(ssrS), Token("false", falseS))>>),
     ObjectConfig(<<PairNode(PropertyIdentifier(ssrS), Token("true", trueS))>>),
     ObjectConfig(<<PairNode(PropertyIdentifier(serverS),
                             ObjectNode(<<PairNode(PropertyIdentifier(presetS),
                                                   StringNode("\"", staticS))>>))>>),
     ObjectConfig(<<PairNode(PropertyIdentifier(serverS),
                             ObjectNode(<<PairNode(PropertyIdentifier(presetS),
                                                   StringNode("'", nodeS))>>))>>),
     ObjectConfig(<<PairNode(PropertyIdentifier(presetS), StringNode("\"", staticS))>>)}

\* what a configuration file can be
ConfigMissing == [state |-> "missing", parse |-> ParseError]

ConfigUnreadable == [state |-> "unreadable", parse |-> ParseError]

ConfigRead(parse) == [state |-> "readable", parse |-> parse]

ConfigStates ==
    {ConfigMissing, ConfigUnreadable, ConfigRead(ParseError)}
        \cup {ConfigRead(Parsed(t)) : t \in ConfigTrees}

\* the frameworks with a split: the dependency that selects the rule, the
\* candidate configuration files, the baseline output type
SplitFrameworks ==
    {[dep |-> "next", name |-> FrameworkNextJS, baseline |-> OutputTypeServer,
      candidates |-> {"next.config.ts", "next.config.mjs", "next.config.js"}],
     [dep |-> "nuxt", name |-> FrameworkNuxt, baseline |-> OutputTypeServer,
      candidates |-> {"nuxt.config.ts", "nuxt.config.js", "nuxt.config.mjs"}],
     [dep |-> "astro", name |-> FrameworkAstro, baseline |-> OutputTypeStatic,
      candidates |-> {"astro.config.ts", "astro.config.mjs", "astro.config.js"}],
     [dep |-> "solid-start", name |-> FrameworkSolidStart, baseline |-> OutputTypeServer,
      candidates |-> {"app.config.ts", "app.config.js"}],
     [dep |-> "@tanstack/start", name |-> FrameworkTanStack, baseline |-> OutputTypeServer,
      candidates |-> {"app.config.ts", "app.config.js"}],
     [dep |-> "react-router", name |-> FrameworkRemix, baseline |-> OutputTypeServer,
      candidates |-> {"react-router.config.ts", "react-router.config.js"}]}

InitConfig ==
    /\ pc = "config"
    /\ \E fw \in SplitFrameworks :
          /\ pkg = [EmptyPackageJSON EXCEPT !.Dependencies = (fw.dep :> DeclaredRange)]
          /\ \E st \in [fw.candidates -> ConfigStates] :
                ctx = [EmptyContext EXCEPT
                          !.files = {f \in fw.candidates : st[f].state # "missing"},
                          !.unreadable =
                              {f \in fw.candidates : st[f].state = "unreadable"},
                          !.parse = [f \in {g \in fw.candidates :
                                               st[g].state = "readable"}
                                     |-> st[f].parse]]
    /\ IdleResolvers /\ IdleTree /\ IdleDetector

NextConfig == DoDetectFramework

SpecConfig == InitConfig /\ [][NextConfig]_vars

-----------------------------------------------------------------------------
(* Claims about the framework classifier *)

DeclaredDeps == DOMAIN pkg.Dependencies \cup DOMAIN pkg.DevDependencies

\* the seventeen rules of C4, as conditions on the manifest and the files
FwRuleHolds(k) ==
    CASE k = 1 -> "next" \in DeclaredDeps
      [] k = 2 -> {"@remix-run/react", "@remix-run/node"} \cap DeclaredDeps # {}
      [] k = 3 -> {"nuxt", "nuxt3"} \cap DeclaredDeps # {}
      [] k = 4 -> \/ "astro" \in DeclaredDeps
                  \/ {"astro.config.mjs", "astro.config.js", "astro.config.ts"}
                         \cap ctx.files # {}
      [] k = 5 -> "@sveltejs/kit" \in DeclaredDeps
      [] k = 6 -> {"solid-start", "@solidjs/start"} \cap DeclaredDeps # {}
      [] k = 7 -> {"@tanstack/start", "@tanstack/react-start"} \cap DeclaredDeps # {}
      [] k = 8 -> /\ "react-router" \in DeclaredDeps
                  /\ {"react-router.config.ts", "react-router.config.js"}
                         \cap ctx.files # {}
      [] k = 9 -> "gatsby" \in DeclaredDeps
      [] k = 10 -> "@11ty/eleventy" \in DeclaredDeps
      [] k = 11 -> "@angular/core" \in DeclaredDeps \/ "angular.json" \in ctx.files
      [] k = 12 -> "@adonisjs/core" \in DeclaredDeps
      [] k = 13 -> "@nestjs/core" \in DeclaredDeps
      [] k = 14 -> "fastify" \in DeclaredDeps
      [] k = 15 -> "express" \in DeclaredDeps
      [] k = 16 -> "react-scripts" \in DeclaredDeps
      [] OTHER -> \/ "vite" \in DeclaredDeps
                  \/ {"vite.config.js", "vite.config.ts", "vite.config.mjs"}
                         \cap ctx.files # {}

\* the framework name each rule returns
FwRuleName ==
    <<"nextjs", "remix", "nuxt", "astro", "sveltekit", "solid-start",
      "tanstack-start", "remix", "gatsby", "eleventy", "angular", "adonisjs",
      "nestjs", "fastify", "express", "create-react-app", "vite">>

FwRulesHolding == {k \in 1..17 : FwRuleHolds(k)}

\* C4: DetectFramework returns the framework name of the earliest satisfied
\* rule of the order next, remix, nuxt, astro, sveltekit, solid-start,
\* tanstack-start, react-router with config, gatsby, eleventy, angular,
\* adonisjs, nestjs, fastify, express, create-react-app, vite.
C4_EarliestRuleWins ==
    pc = "done" =>
        fwInfo.Name = (IF FwRulesHolding = {} THEN ""
                       ELSE FwRuleName[CHOOSE k \in FwRulesHolding :
                                          \A j \in FwRulesHolding : k <= j])

\* @angular/core together with express gave angular
C4_Witness ==
    /\ pc = "done"
    /\ DeclaredDeps = {"@angular/core", "express"}
    /\ fwInfo.Name = "angular"

\* a candidate file that exists, can be read, parses and holds the marker
HoldsMarker(fw, f) ==
    /\ f \in ctx.files
    /\ f \notin ctx.unreadable
    /\ ~ctx.parse[f].err
    /\ LET tree == ctx.parse[f].root
       IN  CASE fw.dep = "next" -> FindPropertyValue(tree, outputS) = exportS
             [] fw.dep = "astro" ->
                    FindPropertyValue(tree, outputS) \in {serverS, hybridS}
             [] fw.dep = "@tanstack/start" ->
                    FindNestedPropertyValue(tree, <<serverS, presetS>>) = staticS
             [] OTHER -> FindPropertyValue(tree, ssrS) = falseS

OtherOutputType(t) == IF t = OutputTypeServer THEN OutputTypeStatic ELSE OutputTypeServer

\* C5: for Next.js, Nuxt, Solid Start, React Router, TanStack Start and
\* Astro the output type is the other one than the framework's baseline
\* exactly when some existing, readable, parseable candidate configuration
\* file yields the marker value, and the baseline otherwise.
C5_OutputTypeFollowsMarker ==
    pc = "done" =>
        \A fw \in SplitFrameworks :
            (fw.dep \in DeclaredDeps /\ fwInfo.Name # FrameworkNone) =>
                /\ fwInfo.Name = fw.name
                /\ fwInfo.OutputType =
                       (IF \E f \in fw.candidates : HoldsMarker(fw, f)
                        THEN OtherOutputType(fw.baseline)
                        ELSE fw.baseline)

\* next with a next.config.ts that holds output: "export" gave {nextjs,
\* static} although next.config.mjs could not be parsed
C5_Witness ==
    /\ pc = "done"
    /\ "next" \in DeclaredDeps
    /\ ctx.files = {"next.config.ts", "next.config.mjs"}
    /\ ctx.unreadable = {}
    /\ ctx.parse["next.config.mjs"].err
    /\ ~ctx.parse["next.config.ts"].err
    /\ FindPropertyValue(ctx.parse["next.config.ts"].root, outputS) = exportS
    /\ fwInfo = FrameworkInfo(FrameworkNextJS, <<"1", ".", "2">>, OutputTypeStatic)

-----------------------------------------------------------------------------
(* Detector.Detect on every list of providers and every state of package.json *)

\* a provider behind the interface: it errors, declines, detects and plans,
\* or detects and fails to plan
OtherProviders ==
    {[name |-> "other", detects |-> FALSE, detectErr |-> TRUE, planErr |-> FALSE],
     [name |-> "other", detects |-> FALSE, detectErr |-> FALSE, planErr |-> FALSE],
     [name |-> "other", detects |-> TRUE, detectErr |-> FALSE, planErr |-> FALSE],
     [name |-> "other", detects |-> TRUE, detectErr |-> FALSE, planErr |-> TRUE]}

ProviderLists == SeqsUpTo({NodeProvider} \cup OtherProviders, MaxProviders) \ {<<>>}

ExpressApp ==
    [EmptyPackageJSON EXCEPT
        !.Name = "api",
        !.Main = "server.js",
        !.Scripts = {"start"},
        !.Dependencies = ("express" :> <<"^", "4", ".", "1", "8">>),
        !.Engines = [NoEngines EXCEPT !.Node = <<">", "=", "1", "8">>]]

NextApp ==
    [EmptyPackageJSON EXCEPT
        !.Name = "web",
        !.Scripts = {"build"},
        !.Dependencies = ("next" :> <<"1", "4", ".", "0", ".", "0">>),
        !.PackageManager = pnpmS \o <<"@", "8", ".", "6", ".", "0">>]

\* the directory: without package.json, with one that cannot be read, with one
\* that is not valid JSON, with a valid one
Directories ==
    {EmptyContext,
     [EmptyContext EXCEPT !.files = {"package.json"}, !.unreadable = {"package.json"}],
     [EmptyContext EXCEPT !.files = {"package.json"},
                          !.manifest = [valid |-> FALSE, pkg |-> EmptyPackageJSON]]}
        \cup {[EmptyContext EXCEPT !.files = {"package.json", "pnpm-lock.yaml"},
                                   !.manifest = [valid |-> TRUE, pkg |-> p]]
                 : p \in {ExpressApp, NextApp}}

Environments ==
    {<<>>,
     ("COOLPACK_NODE_VERSION" :> <<"2", "0">>),
     ("NODE_VERSION" :> <<"v", "1", "8">>) @@ ("PATH" :> <<"/", "b", "i", "n">>)}

Init ==
    /\ pc = "start"
    /\ osEnv \in Environments
    /\ ctx \in Directories
    /\ providers \in ProviderLists
    /\ pkg = EmptyPackageJSON
    /\ idx = 0
    /\ consulted = <<>>
    /\ planner = 0
    /\ ret = Result(<<>>, "")
    /\ IdleResolvers /\ IdleTree

Next ==
    \/ DetectBegin
    \/ ProviderErrored
    \/ ProviderDeclined
    \/ ProviderDetected
    \/ DetectNone

Spec == Init /\ [][Next]_vars

-----------------------------------------------------------------------------
(* Claims about the Detector *)

Detecting ==
    {i \in 1..Len(providers) :
        /\ ~ProviderDetect(providers[i], ctx).err
        /\ ProviderDetect(providers[i], ctx).detected}

FirstDetecting == CHOOSE i \in Detecting : \A j \in Detecting : i <= j

UpTo(n) == [i \in 1..n |-> i]

\* C6: Detect asks the providers in registration order and returns what the
\* Plan of the first provider whose Detect returns true returns; a provider
\* whose Detect errors is passed over and the next one is still asked; when no
\* provider detects, the result is no plan and no error.
C6_FirstDetectingProviderPlans ==
    pc = "done" =>
        IF Detecting = {}
        THEN /\ consulted = UpTo(Len(providers))
             /\ planner = 0
             /\ ret = Result(<<>>, "")
        ELSE /\ consulted = UpTo(FirstDetecting)
             /\ planner = FirstDetecting
             /\ ret = ProviderPlan(providers[FirstDetecting], ctx)

\* a provider whose Detect errored was passed over and the node provider
\* behind it gave the plan
C6_Witness ==
    /\ pc = "done"
    /\ Len(providers) >= 2
    /\ ProviderDetect(providers[1], ctx).err
    /\ providers[2].name = "node"
    /\ planner = 2
    /\ ret.err = ""
    /\ ret.plan # <<>>
    /\ ret.plan[1].Provider = "node"
    /\ ret.plan[1].Framework = "nextjs"

\* a directory without package.json gave no plan and no error
C6_WitnessNone ==
    /\ pc = "done"
    /\ providers = <<NodeProvider>>
    /\ "package.json" \notin ctx.files
    /\ ret = Result(<<>>, "")

\* C7: once a provider has claimed detection no later provider is consulted,
\* and a failure of its Plan is returned as an error together with no plan.
C7_PlanFailureIsReturned ==
    planner # 0 =>
        /\ pc = "done"
        /\ consulted = UpTo(planner)
        /\ ProviderPlan(providers[planner], ctx).err # "" =>
              (ret.plan = <<>> /\ ret.err = ProviderPlan(providers[planner], ctx).err)
        /\ ret.plan # <<>> => ret.plan[1].Provider = providers[planner].name

\* the node provider detected a package.json that is not valid JSON; the
\* provider behind it would have detected and planned, and was not asked
C7_Witness ==
    /\ pc = "done"
    /\ Len(providers) >= 2
    /\ providers[1].name = "node"
    /\ providers[2].detects /\ ~providers[2].planErr
    /\ "package.json" \in ctx.files
    /\ ~ctx.manifest.valid
    /\ consulted = <<1>>
    /\ ret = Result(<<>>, "failed to parse package.json")

-----------------------------------------------------------------------------
(* FindPropertyValue and FindNestedPropertyValue on object literals *)

PropertyNames == {outputS, serverS, presetS}

\* a key is written bare or quoted
PairKeys ==
    {PropertyIdentifier(outputS), StringNode("'", serverS), PropertyIdentifier(presetS)}

ScalarValues == {StringNode("'", staticS), StringNode("\"", <<>>)}

ObjectValues ==
    {ObjectNode(<<PairNode(PropertyIdentifier(presetS), StringNode("\"", staticS))>>),
     ObjectNode(<<PairNode(PropertyIdentifier(outputS), StringNode("\"", exportS))>>),
     ObjectNode(<<PairNode(PropertyIdentifier(serverS),
                           ObjectNode(<<PairNode(PropertyIdentifier(presetS),
                                                 StringNode("'", nodeS))>>))>>)}

Pairs == {PairNode(k, v) : k \in PairKeys, v \in ScalarValues \cup ObjectValues}

\* export default { ... }
ObjectPrograms == {ObjectConfig(ps) : ps \in SeqsUpTo(Pairs, MaxPairs)}

\* const output = 'static'; export default { ... }
DeclaringPrograms ==
    {Program(<<ConstDeclaration(outputS, StringNode("'", staticS)),
               ExportDefault(ObjectNode(ps))>>) : ps \in SeqsUpTo(Pairs, MaxPairs)}

InitTree ==
    /\ pc = "find"
    /\ root \in {NilNode} \cup ObjectPrograms \cup DeclaringPrograms
    /\ propertyName \in PropertyNames
    /\ path = <<>>
    /\ propValue = <<>>
    /\ ctx = EmptyContext
    /\ pkg = EmptyPackageJSON
    /\ IdleResolvers /\ IdleDetector

DoFindPropertyValue ==
    /\ pc = "find"
    /\ propValue' = FindPropertyValue(root, propertyName)
    /\ pc' = "done"
    /\ UNCHANGED <<osEnv, ctx, pkg, pmInfo, nodeVersion, fwInfo, root, propertyName,
                   path, providers, idx, consulted, planner, ret>>

NextTree == DoFindPropertyValue

SpecTree == InitTree /\ [][NextTree]_vars

InitNested ==
    /\ pc = "nested"
    /\ root \in {NilNode} \cup ObjectPrograms
    /\ path \in SeqsUpTo(PropertyNames, MaxPath)
    /\ propertyName = <<>>
    /\ propValue = <<>>
    /\ ctx = EmptyContext
    /\ pkg = EmptyPackageJSON
    /\ IdleResolvers /\ IdleDetector

DoFindNestedPropertyValue ==
    /\ pc = "nested"
    /\ propValue' = FindNestedPropertyValue(root, path)
    /\ pc' = "done"
    /\ UNCHANGED <<osEnv, ctx, pkg, pmInfo, nodeVersion, fwInfo, root, propertyName,
                   path, providers, idx, consulted, planner, ret>>

NextNested == DoFindNestedPropertyValue

SpecNested == InitNested /\ [][NextNested]_vars

-----------------------------------------------------------------------------
(* Claims about the property search *)

\* the nodes of a tree in pre-order
RECURSIVE PreOrder(_)
RECURSIVE PreOrderAll(_)
PreOrder(node) ==
    IF node = NilNode THEN <<>> ELSE <<node>> \o PreOrderAll(node.children)

PreOrderAll(nodes) ==
    IF nodes = <<>> THEN <<>> ELSE PreOrder(Head(nodes)) \o PreOrderAll(Tail(nodes))

Unquote(s) ==
    IF Len(s) >= 2 /\ s[1] = s[Len(s)] /\ s[1] \in {"\"", "'"}
    THEN [i \in 1..(Len(s) - 2) |-> s[i + 1]]
    ELSE s

\* the positions in PreOrder(tree) of the key/value pairs named name
PairsNamed(tree, name) ==
    LET nodes == PreOrder(tree)
    IN  {i \in 1..Len(nodes) :
            /\ nodes[i].type \in {"pair", "property_assignment"}
            /\ nodes[i].key # 0 /\ nodes[i].value # 0
            /\ Unquote(nodes[i].children[nodes[i].key].text) = name}

FirstPairNamed(tree, name) ==
    LET named == PairsNamed(tree, name)
    IN  PreOrder(tree)[CHOOSE i \in named : \A j \in named : i <= j]

ValueOf(pair) == pair.children[pair.value]

\* C8: FindPropertyValue returns the quote-stripped text of the value of the
\* first pair in pre-order whose quote-stripped key is the requested name, and
\* no value when the tree has no such pair; a later pair never overrides an
\* earlier one.
C8_FirstPairWins ==
    pc = "done" /\ propertyName # <<>> =>
        propValue = (IF PairsNamed(root, propertyName) = {} THEN <<>>
                     ELSE Unquote(ValueOf(FirstPairNamed(root, propertyName)).text))

\* a later pair overrode an earlier one
C8_LaterPairOverrode ==
    /\ pc = "done" /\ propertyName # <<>>
    /\ Cardinality(PairsNamed(root, propertyName)) >= 2
    /\ propValue # Unquote(ValueOf(FirstPairNamed(root, propertyName)).text)

\* a value came out of a tree without any pair of that name
C8_ValueWithoutPair ==
    /\ pc = "done" /\ propertyName # <<>>
    /\ PairsNamed(root, propertyName) = {}
    /\ propValue # <<>>

\* the first pair's value where neither an empty value nor a declaration of
\* the name is in the tree
C8_FirstPairWinsOtherwise ==
    (/\ pc = "done" /\ propertyName # <<>>
     /\ root \in ObjectPrograms
     /\ \A i \in PairsNamed(root, propertyName) :
           Unquote(ValueOf(PreOrder(root)[i]).text) # <<>>)
        => propValue = (IF PairsNamed(root, propertyName) = {} THEN <<>>
                        ELSE Unquote(ValueOf(FirstPairNamed(root, propertyName)).text))

\* the path resolved segment by segment, each inside the value of the one before
RECURSIVE ResolvePath(_, _)
ResolvePath(tree, p) ==
    IF tree = NilNode \/ p = <<>> THEN NilNode
    ELSE IF PairsNamed(tree, Head(p)) = {} THEN NilNode
    ELSE LET inside == ValueOf(FirstPairNamed(tree, Head(p)))
         IN  IF Len(p) = 1 THEN inside ELSE ResolvePath(inside, Tail(p))

\* C9: FindNestedPropertyValue resolves the first segment to the value node of
\* the first matching pair in pre-order and searches only that subtree for the
\* rest of the path; a segment that is not found, an empty path and a nil
\* tree yield no value.
C9_PathResolvesInsideSubtree ==
    pc = "done" /\ propertyName = <<>> =>
        LET resolved == ResolvePath(root, path)
        IN  propValue = (IF resolved = NilNode THEN <<>> ELSE Unquote(resolved.text))

\* export default { 'server': { preset: "static" }, preset: '' }: the path
\* [server, preset] gave static
C9_Witness ==
    /\ pc = "done"
    /\ path = <<serverS, presetS>>
    /\ root # NilNode
    /\ Cardinality(PairsNamed(root, presetS)) = 2
    /\ PairsNamed(root, serverS) # {}
    /\ propValue = staticS

\* the second segment stands in the tree, outside the value of the first: no value
C9_WitnessOutside ==
    /\ pc = "done"
    /\ path = <<serverS, presetS>>
    /\ PairsNamed(root, serverS) # {}
    /\ PairsNamed(root, presetS) # {}
    /\ ResolvePath(root, path) = NilNode
    /\ propValue = <<>>

-----------------------------------------------------------------------------
(* DetectNodeVersion on engines.node constraints *)

MaxConstraint == 4

ConstraintAlphabet == {"1", "8", ".", "x", ">", " "}

\* the constraints the documentation of parseEngineVersion lists, and every
\* short string over the alphabet
EngineConstraints ==
    {<<">", "=", "1", "8", " ", "<", "2", "1">>,
     <<"^", "2", "0", ".", "0", ".", "0">>,
     <<"1", "8", ".", "x">>,
     <<">", "=", "1", "8">>}
        \cup SeqsUpTo(ConstraintAlphabet, MaxConstraint)

InitEngine ==
    /\ pc = "version"
    /\ \E e \in EngineConstraints :
          pkg = [EmptyPackageJSON EXCEPT !.Engines = [NoEngines EXCEPT !.Node = e]]
    /\ \E nvmrc \in {Missing, Readable(<<"2", "2", "\n">>)} :
          ctx = VersionContext(nvmrc, Missing, Missing, Missing, <<>>, <<>>)
    /\ IdleResolvers /\ IdleTree /\ IdleDetector

NextEngine == DoDetectNodeVersion

SpecEngine == InitEngine /\ [][NextEngine]_vars

-----------------------------------------------------------------------------
(* Claims about engines.node *)

DigitChars == {"0", "1", "2", "3", "4", "5", "6", "7", "8", "9"}

DigitPositions(s) == {i \in 1..Len(s) : s[i] \in DigitChars}

FirstDigit(s) == CHOOSE i \in DigitPositions(s) : \A j \in DigitPositions(s) : i <= j

\* the end of the run of digits that begins at position i
RunEnd(s, i) ==
    CHOOSE j \in i..Len(s) :
        /\ \A k \in i..j : s[k] \in DigitChars
        /\ j = Len(s) \/ s[j + 1] \notin DigitChars

MajorOf(s) == [k \in 1..(RunEnd(s, FirstDigit(s)) - FirstDigit(s) + 1)
                  |-> s[FirstDigit(s) + k - 1]]

\* C11: for an engines.node constraint the version is the major component of
\* the first number group (">=18 <21" gives 18, "^20.0.0" gives 20, "18.x"
\* gives 18); a constraint without a digit gives no value and the next source
\* (.nvmrc, then the default) decides.
C11_MajorOfFirstNumberGroup ==
    (pc = "done" /\ ctx.Env = NoEnv /\ pkg.Engines.Node # <<>>) =>
        /\ DigitPositions(pkg.Engines.Node) # {} =>
              nodeVersion = MajorOf(pkg.Engines.Node)
        /\ DigitPositions(pkg.Engines.Node) = {} =>
              nodeVersion = (IF ".nvmrc" \in ctx.files THEN <<"2", "2">>
                             ELSE DefaultNodeVersion)
        /\ pkg.Engines.Node = <<">", "=", "1", "8", " ", "<", "2", "1">> =>
              nodeVersion = <<"1", "8">>
        /\ pkg.Engines.Node = <<"^", "2", "0", ".", "0", ".", "0">> =>
              nodeVersion = <<"2", "0">>
        /\ pkg.Engines.Node = <<"1", "8", ".", "x">> => nodeVersion = <<"1", "8">>

\* "^20.0.0" beside an .nvmrc that says 22 gave 20
C11_Witness ==
    /\ pc = "done"
    /\ pkg.Engines.Node = <<"^", "2", "0", ".", "0", ".", "0">>
    /\ ".nvmrc" \in ctx.files
    /\ nodeVersion = <<"2", "0">>

\* a constraint without a digit left the decision to .nvmrc
C11_WitnessNoDigit ==
    /\ pc = "done"
    /\ pkg.Engines.Node = <<">", "x">>
    /\ ".nvmrc" \in ctx.files
    /\ nodeVersion = <<"2", "2">>

-----------------------------------------------------------------------------
(* DetectPackageManager on packageManager fields that name yarn *)

MaxVersion == 3

VersionAlphabet == {"0", "1", "2", "9", ".", "v", "+"}

\* yarn, yarn@, yarn@<version>
YarnFields ==
    {yarnS} \cup {yarnS \o <<"@">> \o v : v \in SeqsUpTo(VersionAlphabet, MaxVersion)}

InitYarn ==
    /\ pc = "pm"
    /\ \E f \in YarnFields : pkg = [EmptyPackageJSON EXCEPT !.PackageManager = f]
    /\ \E fs \in SUBSET {"yarn.lock", "pnpm-lock.yaml"} :
          ctx = [EmptyContext EXCEPT !.files = fs]
    /\ IdleResolvers /\ IdleTree /\ IdleDetector

NextYarn == DoDetectPackageManager

SpecYarn == InitYarn /\ [][NextYarn]_vars

-----------------------------------------------------------------------------
(* Claims about the packageManager field *)

\* the positions of the character c in the string s
PositionsOf(s, c) == {i \in 1..Len(s) : s[i] = c}

FirstOf(S) == CHOOSE i \in S : \A j \in S : i <= j

\* the part of s before position i, and the part after it
Before(s, i) == [k \in 1..(i - 1) |-> s[k]]

After(s, i) == [k \in 1..(Len(s) - i) |-> s[i + k]]

\* the field up to its first @
FieldName(f) ==
    IF PositionsOf(f, "@") = {} THEN f ELSE Before(f, FirstOf(PositionsOf(f, "@")))

\* what follows the first @
FieldRemainder(f) ==
    IF PositionsOf(f, "@") = {} THEN <<>> ELSE After(f, FirstOf(PositionsOf(f, "@")))

\* the remainder up to its first +
FieldVersion(f) ==
    IF PositionsOf(FieldRemainder(f), "+") = {} THEN FieldRemainder(f)
    ELSE Before(FieldRemainder(f), FirstOf(PositionsOf(FieldRemainder(f), "+")))

\* C12: when the packageManager field names yarn, the result is yarnberry
\* exactly when the declared version is non-empty and begins with a digit
\* from 2 to 9, and yarn otherwise; an empty version is never Berry.
C12_BerryIffLeadingDigitTwoToNine ==
    (pc = "done" /\ FieldName(pkg.PackageManager) = yarnS) =>
        LET v == FieldVersion(pkg.PackageManager)
        IN  /\ pmInfo.Name \in {PackageManagerYarn1, PackageManagerYarnBerry}
            /\ pmInfo.Name = PackageManagerYarnBerry
                  <=> (Len(v) > 0 /\ v[1] \in {"2", "3", "4", "5", "6", "7", "8", "9"})
            /\ pmInfo.Version = v

\* yarn@2.1 is Berry
C12_Witness ==
    /\ pc = "done"
    /\ pkg.PackageManager = yarnS \o <<"@", "2", ".", "1">>
    /\ pmInfo = [Name |-> PackageManagerYarnBerry, Version |-> <<"2", ".", "1">>]

\* yarn@ has an empty version and is yarn 1
C12_WitnessEmpty ==
    /\ pc = "done"
    /\ pkg.PackageManager = yarnS \o <<"@">>
    /\ pmInfo = [Name |-> PackageManagerYarn1, Version |-> <<>>]

-----------------------------------------------------------------------------
(* GetPackageManagerInfo on every short packageManager field *)

MaxField == 4

FieldAlphabet == {"p", "@", "+", "1", "."}

PackageManagerFields ==
    {pnpmS \o <<"@", "8", ".", "6", ".", "0", "+", "s", "h", "a", "2", "5", "6">>,
     pnpmS \o <<"@", "8", ".", "6", ".", "0">>,
     pnpmS}
        \cup SeqsUpTo(FieldAlphabet, MaxField)

InitField ==
    /\ pc = "field"
    /\ \E f \in PackageManagerFields :
          pkg = [EmptyPackageJSON EXCEPT !.PackageManager = f]
    /\ ctx = EmptyContext
    /\ IdleResolvers /\ IdleTree /\ IdleDetector

\* name, version := pkg.GetPackageManagerInfo()
DoGetPackageManagerInfo ==
    /\ pc = "field"
    /\ pmInfo' = [Name |-> GetPackageManagerInfo(pkg).name,
                  Version |-> GetPackageManagerInfo(pkg).version]
    /\ pc' = "done"
    /\ UNCHANGED <<osEnv, ctx, pkg, nodeVersion, fwInfo, root, propertyName, path,
                   propValue, providers, idx, consulted, planner, ret>>

NextField == DoGetPackageManagerInfo

SpecField == InitField /\ [][NextField]_vars

\* C13: GetPackageManagerInfo splits the field on its first @ into name and
\* remainder and cuts the remainder at its first +: name@version+hash and
\* name@version give (name, version), name gives (name, no version), the empty
\* field gives (empty, empty).
C13_SplitAtFirstAtAndPlus ==
    pc = "done" =>
        /\ pmInfo.Name = FieldName(pkg.PackageManager)
        /\ pmInfo.Version = FieldVersion(pkg.PackageManager)
        /\ pkg.PackageManager = <<>> => (pmInfo.Name = <<>> /\ pmInfo.Version = <<>>)
        /\ PositionsOf(pkg.PackageManager, "@") = {} =>
              (pmInfo.Name = pkg.PackageManager /\ pmInfo.Version = <<>>)
        /\ PositionsOf(pmInfo.Version, "+") = {}

\* pnpm@8.6.0+sha256 gave (pnpm, 8.6.0)
C13_Witness ==
    /\ pc = "done"
    /\ pkg.PackageManager
           = pnpmS \o <<"@", "8", ".", "6", ".", "0", "+", "s", "h", "a", "2", "5", "6">>
    /\ pmInfo = [Name |-> pnpmS, Version |-> <<"8", ".", "6", ".", "0">>]

-----------------------------------------------------------------------------
(* DetectFramework on manifests whose dependencies declare different ranges *)

FrameworkPackageList ==
    <<"next", "@remix-run/react", "@remix-run/node", "nuxt", "nuxt3", "astro",
      "@sveltejs/kit", "@sveltejs/adapter-static", "solid-start", "@solidjs/start",
      "@tanstack/start", "@tanstack/react-start", "react-router", "gatsby",
      "@11ty/eleventy", "@angular/core", "@angular/ssr", "@adonisjs/core",
      "@nestjs/core", "fastify", "express", "react-scripts", "vite">>

DigitOf(n) == <<"0", "1", "2", "3", "4", "5", "6", "7", "8", "9">>[n + 1]

\* the i-th package declares the range ^1.<i>
RangeOf(d) ==
    LET i == CHOOSE k \in 1..Len(FrameworkPackageList) : FrameworkPackageList[k] = d
    IN  <<"^", "1", ".", DigitOf(i \div 10), DigitOf(i % 10)>>

InitRanges ==
    /\ pc = "framework"
    /\ \E deps \in SubsetsUpTo(FrameworkPackages, MaxDeps), dev \in BOOLEAN :
          pkg = [EmptyPackageJSON EXCEPT
                    !.Dependencies = [d \in (IF dev THEN {} ELSE deps) |-> RangeOf(d)],
                    !.DevDependencies = [d \in (IF dev THEN deps ELSE {}) |-> RangeOf(d)]]
    /\ \E fs \in SubsetsUpTo({"react-router.config.ts", "angular.json"}, MaxRuleFiles) :
          ctx = [EmptyContext EXCEPT
                    !.files = fs,
                    !.parse = [f \in fs \cap ConfigFileSet |-> Parsed(EmptyConfig)]]
    /\ IdleResolvers /\ IdleTree /\ IdleDetector

NextRanges == DoDetectFramework

SpecRanges == InitRanges /\ [][NextRanges]_vars

-----------------------------------------------------------------------------
(* Claims about FrameworkInfo.Version *)

\* the package names by which each of the seventeen rules matches
FwRulePackages ==
    <<{"next"}, {"@remix-run/react", "@remix-run/node"}, {"nuxt", "nuxt3"}, {"astro"},
      {"@sveltejs/kit"}, {"solid-start", "@solidjs/start"},
      {"@tanstack/start", "@tanstack/react-start"}, {"react-router"}, {"gatsby"},
      {"@11ty/eleventy"}, {"@angular/core"}, {"@adonisjs/core"}, {"@nestjs/core"},
      {"fastify"}, {"express"}, {"react-scripts"}, {"vite"}>>

DeclaredRangeOf(d) ==
    IF d \in DOMAIN pkg.Dependencies THEN pkg.Dependencies[d] ELSE pkg.DevDependencies[d]

MarkerChars == {"^", "~", ">", "<", "=", " "}

\* v without its leading constraint markers and spaces
RECURSIVE StripMarkers(_)
StripMarkers(v) ==
    IF v = <<>> THEN v
    ELSE IF v[1] \in MarkerChars THEN StripMarkers(After(v, 1))
    ELSE v

FwFirstRule == CHOOSE k \in FwRulesHolding : \A j \in FwRulesHolding : k <= j

\* C14: when a rule matches because of a declared dependency, the version is
\* the cleaned declared range of a dependency that matched the rule; it is not
\* empty when that range is not empty, also for the rules with alternative
\* package names (remix, nuxt, solid-start, tanstack-start).
C14_VersionOfMatchedDependency ==
    (pc = "done" /\ FwRulesHolding # {}
     /\ FwRulePackages[FwFirstRule] \cap DeclaredDeps # {}) =>
        fwInfo.Version \in {StripMarkers(DeclaredRangeOf(d)) :
                               d \in FwRulePackages[FwFirstRule] \cap DeclaredDeps}

\* only @remix-run/node is declared, with a range, and the version is empty
C14_EmptyVersion ==
    /\ pc = "done"
    /\ DeclaredDeps = {"@remix-run/node"}
    /\ DeclaredRangeOf("@remix-run/node") # <<>>
    /\ fwInfo.Name = FrameworkRemix
    /\ fwInfo.Version = <<>>

\* the same for the rules that take the range of the package that decided
C14_HoldsWhereFirstNameDeclared ==
    (pc = "done" /\ FwRulesHolding # {}
     /\ FwRulePackages[FwFirstRule] \cap DeclaredDeps # {}
     /\ DeclaredDeps \cap {"@remix-run/node", "nuxt3", "@tanstack/react-start"} = {}) =>
        fwInfo.Version \in {StripMarkers(DeclaredRangeOf(d)) :
                               d \in FwRulePackages[FwFirstRule] \cap DeclaredDeps}

-----------------------------------------------------------------------------
(* DetectFramework on every short declared range of the dependency that
   decides, so that cleanVersion meets every arrangement of markers *)

MaxRange == 4

RangeAlphabet == {"^", "~", ">", "=", " ", "1", "."}

InitClean ==
    /\ pc = "framework"
    /\ \E v \in SeqsUpTo(RangeAlphabet, MaxRange), dev \in BOOLEAN :
          pkg = [EmptyPackageJSON EXCEPT
                    !.Dependencies = IF dev THEN <<>> ELSE ("express" :> v),
                    !.DevDependencies = IF dev THEN ("express" :> v) ELSE <<>>]
    /\ ctx = EmptyContext
    /\ IdleResolvers /\ IdleTree /\ IdleDetector

NextClean == DoDetectFramework

SpecClean == InitClean /\ [][NextClean]_vars

\* s is the end of v
IsSuffix(s, v) ==
    /\ Len(s) <= Len(v)
    /\ \A k \in 1..Len(s) : s[k] = v[Len(v) - Len(s) + k]

\* C15: cleanVersion(v) is v without its leading constraint markers
\* (^ ~ > < =) and leading spaces: the result never begins with a marker or a
\* space, and it is a suffix of v.
C15_LeadingMarkersRemoved ==
    (pc = "done" /\ "express" \in DeclaredDeps) =>
        /\ fwInfo.Version = StripMarkers(DeclaredRangeOf("express"))
        /\ fwInfo.Version # <<>> => fwInfo.Version[1] \notin MarkerChars
        /\ IsSuffix(fwInfo.Version, DeclaredRangeOf("express"))

\* a range that begins with a space came back with the space
C15_LeadingSpaceKept ==
    /\ pc = "done"
    /\ "express" \in DeclaredDeps
    /\ DeclaredRangeOf("express") = <<" ", "^", "1">>
    /\ fwInfo.Version = <<" ", "^", "1">>

\* the same for the ranges that do not begin with a space
C15_HoldsWithoutLeadingSpace ==
    (pc = "done" /\ "express" \in DeclaredDeps
     /\ (DeclaredRangeOf("express") = <<>> \/ DeclaredRangeOf("express")[1] # " ")) =>
        /\ fwInfo.Version = StripMarkers(DeclaredRangeOf("express"))
        /\ fwInfo.Version # <<>> => fwInfo.Version[1] \notin MarkerChars
        /\ IsSuffix(fwInfo.Version, DeclaredRangeOf("express"))


\* C16: a project that matches no framework rule gives the name none with the
\* output type none, and in every result of DetectFramework the name is none
\* exactly when the output type is none: every rule that matches sets static
\* or server.
C16_NoneIffNone ==
    pc = "done" =>
        /\ FwRulesHolding = {} => fwInfo = FrameworkInfo(FrameworkNone, <<>>, OutputTypeNone)
        /\ fwInfo.Name = FrameworkNone <=> fwInfo.OutputType = OutputTypeNone
        /\ fwInfo.OutputType \in {OutputTypeNone, OutputTypeStatic, OutputTypeServer}
        /\ FwRulesHolding # {} => fwInfo.OutputType \in {OutputTypeStatic, OutputTypeServer}

\* a manifest without any of the packages, in a directory without any of the
\* files, gave none and none
C16_Witness ==
    /\ pc = "done"
    /\ DeclaredDeps = {}
    /\ ctx.files = {}
    /\ fwInfo = FrameworkInfo(FrameworkNone, <<>>, OutputTypeNone)

\* a vite.config.ts alone gave vite with the output type static
C16_WitnessFileOnly ==
    /\ pc = "done"
    /\ DeclaredDeps = {}
    /\ ctx.files = {"vite.config.ts"}
    /\ fwInfo = FrameworkInfo(FrameworkVite, <<>>, OutputTypeStatic)

-----------------------------------------------------------------------------
(* Provider.Plan on manifests that declare packages of the native catalog *)

MaxNative == 3

NativePackageNames == {NativeDependencies[i].Package : i \in 1..Len(NativeDependencies)}

\* a directory whose package.json parses to the manifest p
DirectoryOf(p, fs) ==
    [EmptyContext EXCEPT !.files = {"package.json"} \cup fs,
                         !.manifest = [valid |-> TRUE, pkg |-> p]]

InitNative ==
    /\ pc = "plan"
    /\ \E deps \in SubsetsUpTo(NativePackageNames \cup {"express"}, MaxNative),
          dev \in BOOLEAN :
          ctx = DirectoryOf(
                    [EmptyPackageJSON EXCEPT
                        !.Dependencies =
                            [d \in (IF dev THEN {} ELSE deps) |-> DeclaredRange],
                        !.DevDependencies =
                            [d \in (IF dev THEN deps ELSE {}) |-> DeclaredRange]],
                    {})
    /\ pkg = EmptyPackageJSON
    /\ IdleResolvers /\ IdleTree /\ IdleDetector

\* plan, err := provider.Plan(ctx)
DoPlan ==
    /\ pc = "plan"
    /\ ret' = NodePlan(ctx)
    /\ pc' = "done"
    /\ UNCHANGED <<osEnv, ctx, pkg, pmInfo, nodeVersion, fwInfo, root, propertyName,
                   path, propValue, providers, idx, consulted, planner>>

NextNative == DoPlan

SpecNative == InitNative /\ [][NextNative]_vars

-----------------------------------------------------------------------------
(* Claims about the plan *)

Manifest == ctx.manifest.pkg

ManifestDeps == DOMAIN Manifest.Dependencies \cup DOMAIN Manifest.DevDependencies

Planned == pc = "done" /\ ret.plan # <<>>

PlanMetadata == ret.plan[1].Metadata

\* the catalog entries whose package the manifest declares
MatchingEntries ==
    {i \in 1..Len(NativeDependencies) : NativeDependencies[i].Package \in ManifestDeps}

\* where the OS package x first occurs when the matching entries are walked
\* in catalog order: entry i, place k, as the number 100 * i + k
FirstOccurrence(x) ==
    LET places == {100 * i + k : i \in MatchingEntries, k \in 1..20}
        holds(n) == /\ (n % 100) <= Len(NativeDependencies[n \div 100].AptPackages)
                    /\ NativeDependencies[n \div 100].AptPackages[n % 100] = x
    IN  CHOOSE n \in places : holds(n) /\ \A m \in places : holds(m) => n <= m

\* C17: the apt packages of a plan are exactly the OS packages of the catalog
\* entries whose package is a direct or dev dependency, each once, in the
\* order of first occurrence over the matching entries in catalog order;
\* without a matching dependency there are none.
C17_AptPackagesOnceInCatalogOrder ==
    Planned =>
        IF MatchingEntries = {}
        THEN "apt_packages" \notin DOMAIN PlanMetadata
        ELSE LET apt == PlanMetadata["apt_packages"]
             IN  /\ {apt[k] : k \in 1..Len(apt)}
                       = UNION {{NativeDependencies[i].AptPackages[k] :
                                    k \in 1..Len(NativeDependencies[i].AptPackages)} :
                                  i \in MatchingEntries}
                 /\ Cardinality({apt[k] : k \in 1..Len(apt)}) = Len(apt)
                 /\ \A a \in 1..(Len(apt) - 1) :
                       FirstOccurrence(apt[a]) < FirstOccurrence(apt[a + 1])

\* sharp and puppeteer: libvips-dev, then the puppeteer packages; playwright
\* beside them adds nothing
C17_Witness ==
    /\ Planned
    /\ ManifestDeps = {"sharp", "puppeteer", "playwright"}
    /\ PlanMetadata["apt_packages"]
           = <<"libvips-dev", "chromium">> \o PlaywrightAptPackages
    /\ PlanMetadata["native_packages"] = <<"sharp", "puppeteer", "playwright">>

\* express alone: no apt packages
C17_WitnessNone ==
    /\ Planned
    /\ ManifestDeps = {"express"}
    /\ "apt_packages" \notin DOMAIN PlanMetadata

-----------------------------------------------------------------------------
(* Provider.Plan on every combination of scripts, main, framework, package
   manager and entry-point files *)

MaxEntryFiles == 1

StartFrameworkPackages ==
    {"next", "nuxt", "astro", "express", "@sveltejs/kit", "vite"}

StartMains == {"", "server.js", "lib/main.js"}

StartLockFiles == {"package-lock.json", "pnpm-lock.yaml", "yarn.lock", "bun.lockb"}

EntryPointFiles == {entryPoints[i] : i \in 1..Len(entryPoints)}

InitStart ==
    /\ pc = "plan"
    /\ \E scripts \in SUBSET {"start", "serve", "build"}, main \in StartMains,
          deps \in SubsetsUpTo(StartFrameworkPackages, 1), lock \in StartLockFiles,
          fs \in SubsetsUpTo(EntryPointFiles, MaxEntryFiles) :
          ctx = DirectoryOf(
                    [EmptyPackageJSON EXCEPT
                        !.Scripts = scripts,
                        !.Main = main,
                        !.Dependencies = [d \in deps |-> DeclaredRange]],
                    {lock} \cup fs)
    /\ pkg = EmptyPackageJSON
    /\ IdleResolvers /\ IdleTree /\ IdleDetector

NextStart == DoPlan

SpecStart == InitStart /\ [][NextStart]_vars

-----------------------------------------------------------------------------
(* Claims about the start command *)

ThePlan == ret.plan[1]

\* the run prefix of the plan's package manager
RunPrefix ==
    CASE ThePlan.PackageManager = "pnpm" -> <<"pnpm">>
      [] ThePlan.PackageManager \in {"yarn", "yarnberry"} -> <<"yarn">>
      [] ThePlan.PackageManager = "bun" -> <<"bun", "run">>
      [] OTHER -> <<"npm", "run">>

\* the default start command of the plan's framework
FrameworkStart ==
    GetDefaultStartCommand([Name |-> ThePlan.Framework],
                           [Name |-> ThePlan.PackageManager])

\* C18: the start command is "<run> start" with a start script; otherwise
\* "<run> serve" with a serve script; otherwise the framework's default start
\* command; otherwise "node <main>" when the manifest declares main.  A start
\* or serve script wins over every framework default.
C18_StartCommandPrecedence ==
    Planned =>
        /\ "start" \in Manifest.Scripts => ThePlan.StartCommand = RunPrefix \o <<"start">>
        /\ ("start" \notin Manifest.Scripts /\ "serve" \in Manifest.Scripts) =>
              ThePlan.StartCommand = RunPrefix \o <<"serve">>
        /\ (Manifest.Scripts \cap {"start", "serve"} = {} /\ FrameworkStart # <<>>) =>
              ThePlan.StartCommand = FrameworkStart
        /\ (Manifest.Scripts \cap {"start", "serve"} = {} /\ FrameworkStart = <<>>
            /\ Manifest.Main # "") =>
              ThePlan.StartCommand = <<"node", Manifest.Main>>

\* a serve script under pnpm beside nuxt, whose default is node
\* .output/server/index.mjs, gave pnpm serve
C18_Witness ==
    /\ Planned
    /\ Manifest.Scripts = {"serve", "build"}
    /\ ThePlan.Framework = FrameworkNuxt
    /\ ThePlan.PackageManager = PackageManagerPNPM
    /\ FrameworkStart = <<"node", ".output/server/index.mjs">>
    /\ ThePlan.StartCommand = <<"pnpm", "serve">>

\* the entry points of the list that are present as files
PresentEntryPoints == {i \in 1..Len(entryPoints) : entryPoints[i] \in ctx.files}

\* C19: without a start or serve script, without a framework default and
\* without a declared main, the entry points dist/index.js, build/index.js,
\* index.js, server.js, app.js are probed in that order and the first one
\* present in the project gives "node <entry>"; the start command is empty
\* only when none is.
C19_FirstPresentEntryPoint ==
    (/\ Planned
     /\ Manifest.Scripts \cap {"start", "serve"} = {}
     /\ FrameworkStart = <<>>
     /\ Manifest.Main = "") =>
        ThePlan.StartCommand =
            (IF PresentEntryPoints = {} THEN <<>>
             ELSE <<"node", entryPoints[CHOOSE i \in PresentEntryPoints :
                                           \A j \in PresentEntryPoints : i <= j]>>)

\* server.js lies in the project, nothing else decides, and the start command
\* is empty
C19_EntryFileIgnored ==
    /\ Planned
    /\ Manifest.Scripts = {}
    /\ Manifest.Main = ""
    /\ ThePlan.Framework = FrameworkNone
    /\ "server.js" \in ctx.files
    /\ ThePlan.StartCommand = <<>>

\* a declared main that is an entry point of the list gives node <main>
C19_DeclaredEntryPoint ==
    (/\ Planned
     /\ Manifest.Scripts \cap {"start", "serve"} = {}
     /\ FrameworkStart = <<>>
     /\ Manifest.Main \in EntryPointFiles) =>
        ThePlan.StartCommand = <<"node", Manifest.Main>>

-----------------------------------------------------------------------------
(* Provider.Plan on every state of package.json and every package manager *)

\* package.json is missing, cannot be read, is not valid JSON, or parses
ManifestStates == {"missing", "unreadable", "invalid", "valid"}

PlanLockFiles == {"bun.lockb", "bun.lock", "yarn.lock", "pnpm-lock.yaml"}

InitPlan ==
    /\ pc = "plan"
    /\ \E st \in ManifestStates, n \in PMNames,
          t \in {<<>>, <<"@", "1", ".", "2">>}, eb \in EngineRanges,
          fs \in SUBSET PlanLockFiles :
          ctx = [EmptyContext EXCEPT
                    !.files = fs \cup (IF st = "missing" THEN {} ELSE {"package.json"}),
                    !.unreadable = IF st = "unreadable" THEN {"package.json"} ELSE {},
                    !.manifest =
                        [valid |-> st = "valid",
                         pkg |-> IF st = "valid"
                                 THEN [EmptyPackageJSON EXCEPT
                                          !.PackageManager = n \o t,
                                          !.Engines = [NoEngines EXCEPT !.Bun = eb]]
                                 ELSE EmptyPackageJSON]]
    /\ pkg = EmptyPackageJSON
    /\ IdleResolvers /\ IdleTree /\ IdleDetector

NextPlan == DoPlan

SpecPlan == InitPlan /\ [][NextPlan]_vars

\* C20: every plan that Plan returns has the provider node and the language
\* bun when the resolved package manager is bun, nodejs otherwise; neither
\* field is ever empty, and a plan never comes with an error.
C20_ProviderAndLanguageSet ==
    pc = "done" =>
        /\ ret.plan # <<>> =>
              /\ ret.err = ""
              /\ ThePlan.Provider = "node"
              /\ ThePlan.Language \in {"bun", "nodejs"}
              /\ ThePlan.Language = "bun" <=> ThePlan.PackageManager = "bun"
        /\ ret.err # "" => ret.plan = <<>>
        /\ ret.plan # <<>> <=> ("package.json" \in ctx.files \ ctx.unreadable
                                /\ ctx.manifest.valid)

\* bun.lock alone resolved to bun and the language is bun
C20_Witness ==
    /\ Planned
    /\ Manifest.PackageManager = <<>>
    /\ ctx.files = {"package.json", "bun.lock"}
    /\ ThePlan.Provider = "node"
    /\ ThePlan.PackageManager = "bun"
    /\ ThePlan.Language = "bun"

\* a package.json that is not valid JSON gave an error and no plan
C20_WitnessError ==
    /\ pc = "done"
    /\ "package.json" \in ctx.files
    /\ ~ctx.manifest.valid
    /\ ret = Result(<<>>, "failed to parse package.json")

-----------------------------------------------------------------------------
(* Provider.Plan on projects that hold files the resolvers look for *)

MaxInfluence == 2

\* files whose existence one of the resolvers or Plan itself tests
ConsultedFiles ==
    {"bun.lock", "bun.lockb", ".yarnrc.yml", ".yarnrc.yaml", "yarn.lock",
     "pnpm-lock.yaml", "package-lock.json", ".nvmrc", ".node-version",
     "nuxt.config.ts", "nuxt.config.mjs", "app.config.ts", "app.config.js",
     "react-router.config.ts", "react-router.config.js", "astro.config.mjs",
     "vite.config.ts", "angular.json", ".moon/workspace.yml", "tsconfig.json"}

\* export default { ssr: false }
SpaConfig == ObjectConfig(<<PairNode(PropertyIdentifier(ssrS), Token("false", falseS))>>)

InitFiles ==
    /\ pc = "plan"
    /\ \E deps \in SubsetsUpTo({"nuxt", "solid-start", "react-router"}, 1),
          fs \in SubsetsUpTo(ConsultedFiles, MaxInfluence) :
          ctx = [DirectoryOf([EmptyPackageJSON EXCEPT
                                 !.Dependencies = [d \in deps |-> DeclaredRange]], fs)
                 EXCEPT !.text = [f \in fs \cap VersionFileSet |-> <<"2", "0", "\n">>],
                        !.parse = [f \in fs \cap ConfigFileSet |-> Parsed(SpaConfig)]]
    /\ pkg = EmptyPackageJSON
    /\ IdleResolvers /\ IdleTree /\ IdleDetector

NextFiles == DoPlan

SpecFiles == InitFiles /\ [][NextFiles]_vars

\* the plan of the same project without the file f
PlanWithout(f) == NodePlan([ctx EXCEPT !.files = @ \ {f}]).plan[1]

SameMetadata(a, b) == DOMAIN a = DOMAIN b /\ \A k \in DOMAIN a : a[k] = b[k]

\* the presence of f changed the package manager, the runtime version, the
\* framework, the output type or other metadata of the plan
Influenced(f) ==
    \/ PlanWithout(f).PackageManager # ThePlan.PackageManager
    \/ PlanWithout(f).Language # ThePlan.Language
    \/ PlanWithout(f).LanguageVersion # ThePlan.LanguageVersion
    \/ PlanWithout(f).Framework # ThePlan.Framework
    \/ ~SameMetadata(PlanWithout(f).Metadata, ThePlan.Metadata)

Listed(f) == \E k \in 1..Len(ThePlan.DetectedFiles) : ThePlan.DetectedFiles[k] = f

\* C21: every file whose presence changed the resolved package manager, the
\* runtime version, the framework, the output type or the metadata of the
\* plan is listed in the plan's detectedFiles.
C21_InfluencingFilesListed ==
    Planned =>
        \A f \in ctx.files \ {"package.json"} : Influenced(f) => Listed(f)

\* bun.lock alone made the package manager bun and is not listed
C21_BunLockUnlisted ==
    /\ Planned
    /\ ctx.files = {"package.json", "bun.lock"}
    /\ ThePlan.PackageManager = PackageManagerBun
    /\ PlanWithout("bun.lock").PackageManager = PackageManagerNPM
    /\ ThePlan.DetectedFiles = <<"package.json">>

\* the files that detectRelevantFiles cannot list although a resolver or Plan
\* tests them
UnlistedFiles ==
    {"bun.lock", "nuxt.config.mjs", "app.config.ts", "app.config.js",
     "react-router.config.ts", "react-router.config.js", ".moon/workspace.yml"}

\* every other file that influenced the plan is listed, but for a lock file
\* that a file of higher priority kept from deciding the package manager
C21_ListedOtherwise ==
    Planned =>
        \A f \in ctx.files \ ({"package.json"} \cup UnlistedFiles) :
            Influenced(f) => Listed(f)

-----------------------------------------------------------------------------
(* Context.HasFile, ReadFile and ListFiles on the file system.  A path is the
   sequence of its segments; an absolute path starts at the root <<>>. *)

MaxSegments == 3

\* filepath.Clean of an absolute path: "." is dropped, ".." removes the
\* segment before it and is dropped at the root
RECURSIVE CleanFrom(_, _, _)
CleanFrom(segs, i, out) ==
    IF i > Len(segs) THEN out
    ELSE IF segs[i] = "." THEN CleanFrom(segs, i + 1, out)
    ELSE IF segs[i] = ".."
         THEN CleanFrom(segs, i + 1,
                        IF out = <<>> THEN out ELSE SubSeq(out, 1, Len(out) - 1))
    ELSE CleanFrom(segs, i + 1, Append(out, segs[i]))

Clean(segs) == CleanFrom(segs, 1, <<>>)

\* filepath.Join(ctx.Path, name)
Join(base, name) == Clean(base \o name)

IsPrefix(p, q) == Len(p) <= Len(q) /\ SubSeq(q, 1, Len(p)) = p

RECURSIVE CommonPrefixLen(_, _, _)
CommonPrefixLen(p, q, n) ==
    IF n < Len(p) /\ n < Len(q) /\ p[n + 1] = q[n + 1]
    THEN CommonPrefixLen(p, q, n + 1) ELSE n

\* filepath.Rel(base, target) of two clean absolute paths
Rel(base, target) ==
    LET n == CommonPrefixLen(base, target, 0)
        rel == [k \in 1..(Len(base) - n) |-> ".."]
                   \o SubSeq(target, n + 1, Len(target))
    IN  IF rel = <<>> THEN <<".">> ELSE rel

\* the machine's file system: what each existing path is
AppRoot == <<"srv", "app">>

Disk ==
    (<<>> :> "dir") @@ (<<"srv">> :> "dir") @@ (AppRoot :> "dir")
        @@ (<<"srv", "app", "package.json">> :> "file")
        @@ (<<"srv", "app", "src">> :> "dir")
        @@ (<<"srv", "app", "src", "index.js">> :> "file")
        @@ (<<"srv", "secret">> :> "file")
        @@ (<<"etc">> :> "dir")
        @@ (<<"etc", "passwd">> :> "file")

hasMeta(seg) == seg = "*"

\* the longest leading part of a pattern without a wildcard segment
RECURSIVE MetaFreePrefix(_, _)
MetaFreePrefix(pattern, n) ==
    IF n < Len(pattern) /\ ~hasMeta(pattern[n + 1])
    THEN MetaFreePrefix(pattern, n + 1) ELSE SubSeq(pattern, 1, n)

\* filepath.Glob: the existing paths that match the pattern segment by segment
Glob(pattern) ==
    {p \in DOMAIN Disk :
        /\ Len(p) = Len(pattern)
        /\ \A k \in 1..Len(p) : hasMeta(pattern[k]) \/ pattern[k] = p[k]}

Access(op, paths, ok, names) ==
    [op |-> op, accessed |-> paths, ok |-> ok, rejected |-> FALSE, names |-> names]

DoHasFile ==
    /\ pc = "hasFile"
    /\ LET p == Join(ctx.Path, path)
       IN  ret' = Access("HasFile", {p}, p \in DOMAIN Disk, {})
    /\ pc' = "done"
    /\ UNCHANGED <<osEnv, ctx, pkg, pmInfo, nodeVersion, fwInfo, root,
                   propertyName, path, propValue, providers, idx, consulted,
                   planner>>

DoReadFile ==
    /\ pc = "readFile"
    /\ LET p == Join(ctx.Path, path)
       IN  ret' = Access("ReadFile", {p},
                         p \in DOMAIN Disk /\ Disk[p] = "file", {})
    /\ pc' = "done"
    /\ UNCHANGED <<osEnv, ctx, pkg, pmInfo, nodeVersion, fwInfo, root,
                   propertyName, path, propValue, providers, idx, consulted,
                   planner>>

DoListFiles ==
    /\ pc = "listFiles"
    /\ LET fullPattern == Join(ctx.Path, path)
           matches == Glob(fullPattern)
       IN  ret' = Access("ListFiles",
                         {MetaFreePrefix(fullPattern, 0)} \cup matches, TRUE,
                         {Rel(ctx.Path, m) : m \in matches})
    /\ pc' = "done"
    /\ UNCHANGED <<osEnv, ctx, pkg, pmInfo, nodeVersion, fwInfo, root,
                   propertyName, path, propValue, providers, idx, consulted,
                   planner>>

Segments == {"..", ".", "*", "src", "package.json", "secret"}

InitContext ==
    /\ pc \in {"hasFile", "readFile", "listFiles"}
    /\ ctx = [Path |-> AppRoot, Env |-> NoEnv]
    /\ path \in SeqsUpTo(Segments, MaxSegments)
    /\ pkg = EmptyPackageJSON
    /\ root = NilNode /\ propertyName = <<>> /\ propValue = <<>>
    /\ IdleResolvers /\ IdleDetector

NextContext == DoHasFile \/ DoReadFile \/ DoListFiles

SpecContext == InitContext /\ [][NextContext]_vars

Inside(p) == IsPrefix(ctx.Path, p)

\* C22: HasFile, ReadFile and ListFiles touch no path outside the root of the
\* Context: for every relative name, also one with ".." segments, every path
\* handed to the file system lies under ctx.Path, or the operation is rejected.
C22_AccessStaysInsideRoot ==
    pc = "done" => (ret.rejected \/ \A p \in ret.accessed : Inside(p))

\* ReadFile("../secret") read the file next to the application directory
C22_ParentFileRead ==
    /\ pc = "done"
    /\ path = <<"..", "secret">>
    /\ ret.op = "ReadFile"
    /\ ret.accessed = {<<"srv", "secret">>}
    /\ ret.ok /\ ~ret.rejected

\* ListFiles("../*") names an entry outside the root
C22_ParentListed ==
    /\ pc = "done"
    /\ path = <<"..", "*">>
    /\ ret.op = "ListFiles"
    /\ <<"..", "secret">> \in ret.names

\* a name without ".." segments stays inside the root
C22_InsideWithoutParentSegments ==
    (pc = "done" /\ \A k \in 1..Len(path) : path[k] # "..")
        => \A p \in ret.accessed : Inside(p)

-----------------------------------------------------------------------------
(* The JSON encoding of app.Plan.  A JSON object is a function from its keys;
   a Plan is the Go struct, a function from its field names. *)

\* the json tag of every field of Plan
FieldKey ==
    [Provider |-> "provider", Language |-> "language",
     LanguageVersion |-> "language_version", Framework |-> "framework",
     FrameworkVersion |-> "framework_version",
     PackageManager |-> "package_manager",
     PackageManagerVersion |-> "package_manager_version",
     InstallCommand |-> "install_command", BuildCommand |-> "build_command",
     StartCommand |-> "start_command", DetectedFiles |-> "detected_files",
     Metadata |-> "metadata", BuildEnv |-> "build_env", Env |-> "env"]

\* the fields whose tag has no omitempty option
AlwaysEncoded == {"Provider", "Language"}

StringFields ==
    {"Provider", "Language", "LanguageVersion", "Framework", "FrameworkVersion",
     "PackageManager", "PackageManagerVersion", "InstallCommand",
     "BuildCommand", "StartCommand"}

\* the zero value of a field: the empty string, the nil slice, the nil map
ZeroValue(f) == IF f \in StringFields THEN "" ELSE <<>>

\* encoding/json's test for omitempty: empty string, slice or map of length 0
isEmptyValue(f, v) == IF f \in StringFields THEN v = "" ELSE DOMAIN v = {}

\* json.Marshal(plan): a field with omitempty is left out when it is empty
Marshal(p) ==
    LET kept == {f \in DOMAIN FieldKey :
                    f \in AlwaysEncoded \/ ~isEmptyValue(f, p[f])}
        fieldOf(k) == CHOOSE f \in kept : FieldKey[f] = k
    IN  [k \in {FieldKey[f] : f \in kept} |-> p[fieldOf(k)]]

\* json.Unmarshal(doc, &plan) into a zero Plan: a key that is missing leaves
\* the zero value
Unmarshal(doc) ==
    [f \in DOMAIN FieldKey |->
        IF FieldKey[f] \in DOMAIN doc THEN doc[FieldKey[f]] ELSE ZeroValue(f)]

OptionalStringKeys ==
    {FieldKey[f] : f \in StringFields \ AlwaysEncoded}

\* wire documents: every optional string key absent, empty or set;
\* detected_files absent, empty or set
WireDocuments ==
    {[provider |-> "node", language |-> "nodejs"]
        @@ [k \in S |-> IF k \in E THEN "" ELSE "v"] @@ files :
        S \in SUBSET OptionalStringKeys, E \in SUBSET OptionalStringKeys,
        files \in {<<>>, [detected_files |-> <<>>],
                   [detected_files |-> <<"package.json">>]}}

RoundTrip(doc, plan, out, back) ==
    [doc |-> doc, plan |-> plan, out |-> out, back |-> back]

InitJSON ==
    /\ pc = "unmarshal"
    /\ \E d \in WireDocuments : ret = RoundTrip(d, <<>>, <<>>, <<>>)
    /\ ctx = EmptyContext
    /\ pkg = EmptyPackageJSON
    /\ osEnv = <<>> /\ providers = <<>> /\ idx = 0 /\ consulted = <<>>
    /\ planner = 0
    /\ IdleResolvers /\ IdleTree

\* the document is parsed into a Plan
DoUnmarshal ==
    /\ pc \in {"unmarshal", "reparse"}
    /\ IF pc = "unmarshal"
       THEN /\ ret' = [ret EXCEPT !.plan = <<Unmarshal(ret.doc)>>]
            /\ pc' = "marshal"
       ELSE /\ ret' = [ret EXCEPT !.back = <<Unmarshal(ret.out[1])>>]
            /\ pc' = "done"
    /\ UNCHANGED <<osEnv, ctx, pkg, pmInfo, nodeVersion, fwInfo, root,
                   propertyName, path, propValue, providers, idx, consulted,
                   planner>>

\* the Plan is serialized
DoMarshal ==
    /\ pc = "marshal"
    /\ ret' = [ret EXCEPT !.out = <<Marshal(ret.plan[1])>>]
    /\ pc' = "reparse"
    /\ UNCHANGED <<osEnv, ctx, pkg, pmInfo, nodeVersion, fwInfo, root,
                   propertyName, path, propValue, providers, idx, consulted,
                   planner>>

NextJSON == DoUnmarshal \/ DoMarshal

SpecJSON == InitJSON /\ [][NextJSON]_vars

\* the serialized Plan parses back to the same Plan
PlanReproduced == ret.back[1] = ret.plan[1]

\* an optional string key that the document held with the empty string is
\* still held by the serialized Plan, so that it differs from an absent one
EmptyKept ==
    \A k \in OptionalStringKeys :
        (k \in DOMAIN ret.doc /\ ret.doc[k] = "") => k \in DOMAIN ret.out[1]

\* C23: serializing a Plan to JSON and parsing it back reproduces every
\* field, and an optional string field that is present with the empty string
\* stays distinguishable after the round trip from one that is absent.
C23_RoundTripKeepsEmptyFields ==
    pc = "done" => (PlanReproduced /\ EmptyKept)

\* a document with "framework": "" came back without the key
C23_EmptyFrameworkDropped ==
    /\ pc = "done"
    /\ "framework" \in DOMAIN ret.doc /\ ret.doc["framework"] = ""
    /\ ret.plan[1].Framework = ""
    /\ "framework" \notin DOMAIN ret.out[1]
    /\ ret.plan[1] = Unmarshal([k \in DOMAIN ret.doc \ {"framework"} |-> ret.doc[k]])

\* the Go struct itself survives the round trip
C23_PlanReproduced == pc = "done" => PlanReproduced

\* provider and language are always written
C23_RequiredKeysWritten ==
    pc \in {"reparse", "done"} => {"provider", "language"} \subseteq DOMAIN ret.out[1]

-----------------------------------------------------------------------------
(* Provider.Plan on projects with package manager and Node version signals *)

RuntimeLockFiles == {"bun.lockb", "yarn.lock"}

InitRuntime ==
    /\ pc = "plan"
    /\ \E n \in PMNames, t \in {<<>>, <<"@", "1", ".", "2">>},
          e \in NodeEngineRanges, nvmrc \in NvmrcStates,
          override \in NodeVersionOverrides, legacy \in LegacyOverrides,
          fs \in SUBSET RuntimeLockFiles :
          LET vc == VersionContext(nvmrc, Missing, Missing, Missing, override, legacy)
          IN  ctx = [vc EXCEPT
                        !.files = @ \cup fs \cup {"package.json"},
                        !.manifest =
                            [valid |-> TRUE,
                             pkg |-> [EmptyPackageJSON EXCEPT
                                         !.PackageManager = n \o t,
                                         !.Engines = [NoEngines EXCEPT !.Node = e]]]]
    /\ pkg = EmptyPackageJSON
    /\ IdleResolvers /\ IdleTree /\ IdleDetector

NextRuntime == DoPlan

SpecRuntime == InitRuntime /\ [][NextRuntime]_vars

\* the version that the packageManager field declares for bun
DeclaredBunVersion ==
    IF FieldName(Manifest.PackageManager) = bunS
    THEN FieldVersion(Manifest.PackageManager) ELSE <<>>

\* C24: with the package manager bun the plan's languageVersion is the
\* version of the packageManager field, or "latest" when that is empty,
\* whatever the Node version signals are; with every other package manager
\* it is the result of DetectNodeVersion.
C24_LanguageVersionByRuntime ==
    Planned =>
        IF ThePlan.PackageManager = PackageManagerBun
        THEN ThePlan.LanguageVersion =
                 (IF DeclaredBunVersion # <<>> THEN DeclaredBunVersion
                  ELSE <<"l", "a", "t", "e", "s", "t">>)
        ELSE ThePlan.LanguageVersion = DetectNodeVersion(ctx, Manifest)

\* bun by its lock file, with COOLPACK_NODE_VERSION, engines.node and .nvmrc
\* all giving a Node version: the languageVersion is latest
C24_Witness ==
    /\ Planned
    /\ ThePlan.PackageManager = PackageManagerBun
    /\ ctx.Env["COOLPACK_NODE_VERSION"] = <<"v", "2", "0">>
    /\ Manifest.Engines.Node # <<>>
    /\ ".nvmrc" \in ctx.files
    /\ DetectNodeVersion(ctx, Manifest) = <<"2", "0">>
    /\ ThePlan.LanguageVersion = <<"l", "a", "t", "e", "s", "t">>

\* bun@1.2 in the field: the languageVersion is 1.2
C24_WitnessDeclared ==
    /\ Planned
    /\ Manifest.PackageManager = bunS \o <<"@", "1", ".", "2">>
    /\ ctx.Env["NODE_VERSION"] # <<>>
    /\ ThePlan.LanguageVersion = <<"1", ".", "2">>

\* another package manager: the languageVersion is the Node version
C24_WitnessNode ==
    /\ Planned
    /\ ThePlan.PackageManager = PackageManagerYarn1
    /\ ThePlan.LanguageVersion = <<"1", "8", ".", "2", ".", "0">>

-----------------------------------------------------------------------------
(* Claims about packageManager fields that name no known package manager *)

UnknownField ==
    /\ pkg.PackageManager # <<>>
    /\ FieldName(pkg.PackageManager) \notin {pnpmS, yarnS, bunS, npmS}

\* the first rule after the packageManager field that holds
PMFirstLaterRule ==
    CHOOSE k \in 2..10 : PMRuleHolds(k) /\ \A j \in 2..(k - 1) : ~PMRuleHolds(j)

\* C25: a packageManager field whose name is none of pnpm, yarn, bun, npm,
\* also one that starts with @ and so has an empty name, is ignored: the
\* result is that of the same project without the field, decided by the lock
\* files, then engines, then the npm default, and it has no version.
C25_UnknownFieldIgnored ==
    (pc = "done" /\ UnknownField) =>
        /\ pmInfo = DetectPackageManager(ctx, [pkg EXCEPT !.PackageManager = <<>>])
        /\ pmInfo.Name \in PMRuleNames(PMFirstLaterRule)
        /\ pmInfo.Version = <<>>

\* deno@8.6.0 beside a yarn.lock gave yarn without a version
C25_Witness ==
    /\ pc = "done"
    /\ pkg.PackageManager = denoS \o <<"@", "8", ".", "6", ".", "0">>
    /\ "yarn.lock" \in ctx.files
    /\ "pnpm-lock.yaml" \notin ctx.files
    /\ pmInfo = [Name |-> "yarn", Version |-> <<>>]

\* the field @8.6.0 with engines.bun and no lock file gave bun
C25_WitnessEmptyName ==
    /\ pc = "done"
    /\ pkg.PackageManager = <<"@", "8", ".", "6", ".", "0">>
    /\ ctx.files = {}
    /\ pkg.Engines.PNPM = <<>> /\ pkg.Engines.Bun # <<>>
    /\ pmInfo = [Name |-> "bun", Version |-> <<>>]

\* the field deno@8.6.0 alone gave the npm default without a version
C25_WitnessDefault ==
    /\ pc = "done"
    /\ pkg.PackageManager = denoS \o <<"@", "8", ".", "6", ".", "0">>
    /\ ctx.files = {}
    /\ pkg.Engines = NoEngines
    /\ pmInfo = [Name |-> "npm", Version |-> <<>>]

-----------------------------------------------------------------------------
(* Detector.Detect under command-override environment variables *)

CommandOverrides ==
    {"COOLPACK_INSTALL_CMD", "COOLPACK_BUILD_CMD", "COOLPACK_START_CMD"}

\* every set of the command overrides, each set to "x", with and without a
\* Node version override
OverrideEnvironments ==
    {[v \in S |-> <<"x">>] @@ e :
        S \in SUBSET CommandOverrides,
        e \in {<<>>, ("COOLPACK_NODE_VERSION" :> <<"2", "0">>)}}

InitOverrides ==
    /\ pc = "start"
    /\ osEnv \in OverrideEnvironments
    /\ ctx \in Directories
    /\ providers \in {<<NodeProvider>>,
                      <<[name |-> "other", detects |-> FALSE, detectErr |-> TRUE,
                         planErr |-> FALSE], NodeProvider>>}
    /\ pkg = EmptyPackageJSON
    /\ idx = 0
    /\ consulted = <<>>
    /\ planner = 0
    /\ ret = Result(<<>>, "")
    /\ IdleResolvers /\ IdleTree

SpecOverrides == InitOverrides /\ [][Next]_vars

\* the process environment without the variables vs
Unset(os, vs) == [v \in DOMAIN os \ vs |-> os[v]]

\* what the provider that planned returns for the same directory when the
\* command overrides are not set
PlanWithoutOverrides ==
    ProviderPlan(providers[planner],
                 [ctx EXCEPT !.Env = loadRelevantEnvVars(Unset(osEnv, CommandOverrides))])

=============================================================================
